---------------------------- MODULE Spec2Model ----------------------------
(***************************************************************************)
(* Model of the SONIC detection-association and track-lifecycle engine:   *)
(* sonic/src/core/models.py (Detection, Track) and                        *)
(* sonic/src/core/tracker.py (Tracker).                                   *)
(*                                                                         *)
(* The track map (a Python dict, which iterates in insertion order) is a  *)
(* sequence of Track records; a key of the map is the track_id of the     *)
(* record stored under it.  Distances are kept squared: the code compares *)
(* square roots of integer sums of squares, and the square root is        *)
(* strictly monotone on the pixel ranges involved, so a < b on the roots  *)
(* is a < b on the squares.                                               *)
(***************************************************************************)
EXTENDS Integers, Sequences, FiniteSets, Bags, TLC

\* ------------------------------------------------------------ bounds
MaxFrame == 2
MaxDets == 2
MaxTotal == 3
MaxCrowdFrame == 1
MaxCrowdTotal == 4
MaxSessionFrame == 3
MaxSessionTotal == 3
MaxTick == 2
MaxFailing == 1
MaxDetectorFrame == 1
MaxLongFrame == 10
MaxLongTotal == 10
MaxExpiryFrame == 4
MaxExpiryTotal == 2
MaxExpiryTick == 1
MaxVideoFrame == 2
MaxVideoTotal == 2
MaxRatFrame == 2
MaxRatTotal == 4
MaxLegacyFrame == 3
MaxLegacyTotal == 2
MaxLegacySaves == 2
MaxSeedFrame == 0
MaxSeedTotal == 1
MaxCallFrame == 2
MaxCallDets == 1

\* ------------------------------------------------- configuration values
distance_threshold == 2
max_age == 1
alert_cooldown == 2
confidence_threshold == 70
target_class == "mouse"
best_dist == 2
max_track_age == 1
rat_alert_cooldown == 2

\* tracks, next_track_id: the Tracker's fields.  op: the last call made on
\* the Tracker.  args, ret, pre: when that call is an update, its arguments,
\* its return value and the Tracker's fields (and issued) on entry to it.
\* issued: every track_id handed to a Track since construction.
VARIABLES tracks, next_track_id, op, args, ret, pre, issued

\* frame_count, detection_history, last_alert_time: the DetectionSession's
\* fields.  now: the last reading of the clock.  alerts: the handler
\* invocations made so far, in order.  pc: the statement of process_frame
\* (or of the frame loop around it) that runs next.  dets: the local
\* variable detections of process_frame.  chk: the session as the last _check_alerts
\* call found it.  written: the summary files written so far.  raw: what
\* the model call of the last Detector.detect gave.
VARIABLES frame_count, detection_history, last_alert_time, now, alerts, pc,
          dets, chk, written, raw

session == <<frame_count, detection_history, last_alert_time, now, alerts, pc,
             dets, chk, written, raw>>

\* Two update calls running on one Tracker at once.  keys: the keys of the
\* dict self.tracks in insertion order, tracks holding its values; written
\* where a key can differ from the track_id of its value, which is where
\* the calls interleave (everywhere else the key of tracks[i] is
\* tracks[i].track_id).  calls: per call its position in update and its
\* local variables, with the call that ran last and the number of times
\* the running call changed.
VARIABLES keys, calls

vars == <<tracks, next_track_id, op, args, ret, pre, issued, session, keys, calls>>

\* ------------------------------------------------------------- models.py
Detection(x, y, width, height, confidence, class_name, timestamp, frame_id) ==
    [x |-> x, y |-> y, width |-> width, height |-> height,
     confidence |-> confidence, class_name |-> class_name,
     timestamp |-> timestamp, frame_id |-> frame_id]

center(d) == <<d.x + (d.width \div 2), d.y + (d.height \div 2)>>

Track(track_id, detections, last_seen) ==
    [track_id |-> track_id, detections |-> detections, last_seen |-> last_seen,
     is_active |-> TRUE, alert_sent |-> FALSE]

\* Track.latest_detection: <<>> stands for None, <<d>> for the detection d.
latest_detection(t) ==
    IF t.detections # <<>> THEN <<t.detections[Len(t.detections)]>> ELSE <<>>

length(t) == Len(t.detections)

\* ------------------------------------------------------------ tracker.py
\* The square of the distance computed at tracker.py:98.
distance2(d, last) ==
    LET c == center(d)
        l == center(last)
    IN  (c[1] - l[1]) * (c[1] - l[1]) + (c[2] - l[2]) * (c[2] - l[2])

\* The loop of _find_best_match from position i on; best is <<>> (None) or
\* <<d>>, best_distance2 is the square of best_distance.
closer_or_equal(distance, best_distance) == distance <= best_distance

closer_than_threshold(distance, best_distance) ==
    distance < distance_threshold * distance_threshold

\* The test of tracker.py:100 on squared distances.
closer(distance, best_distance) == distance < best_distance

RECURSIVE BestFrom(_, _, _, _, _)
BestFrom(last, detections, i, best, best_distance2) ==
    IF i > Len(detections) THEN best
    ELSE LET distance == distance2(detections[i], last)
         IN  IF closer(distance, best_distance2)
             THEN BestFrom(last, detections, i + 1, <<detections[i]>>, distance)
             ELSE BestFrom(last, detections, i + 1, best, best_distance2)

_find_best_match(track, detections) ==
    IF latest_detection(track) = <<>> THEN <<>>
    ELSE BestFrom(latest_detection(track)[1], detections, 1, <<>>,
                  distance_threshold * distance_threshold)

\* list.remove(v): drops the first element equal to v.
RECURSIVE FirstIndex(_, _, _)
FirstIndex(s, v, i) ==
    IF i > Len(s) THEN 0
    ELSE IF s[i] = v THEN i ELSE FirstIndex(s, v, i + 1)

remove_nothing(s, v) == s

remove(s, v) ==
    LET k == FirstIndex(s, v, 1)
    IN  IF k = 0 THEN s
        ELSE [j \in 1..(Len(s) - 1) |-> IF j < k THEN s[j] ELSE s[j + 1]]

skipped_inactive_too(track) == track.detections = <<>>

\* tracker.py:46: the tracks the matching loop passes over.
skipped(track) == ~track.is_active \/ track.detections = <<>>

extend_in_front(track, detection) ==
    [track EXCEPT !.detections = <<detection>> \o @,
                  !.last_seen = detection.timestamp]

extend_rearming(track, detection) ==
    [track EXCEPT !.detections = Append(@, detection),
                  !.last_seen = detection.timestamp,
                  !.alert_sent = FALSE]

extend_stale(track, detection) ==
    [track EXCEPT !.detections = Append(@, detection)]

\* tracker.py:52-53: the matched detection joins the track.
extend(track, detection) ==
    [track EXCEPT !.detections = Append(@, detection),
                  !.last_seen = detection.timestamp]

expired_at_max_age(frame_id, last_frame) == frame_id - last_frame >= max_age

\* tracker.py:58: the expiry test.
expired(frame_id, last_frame) == frame_id - last_frame > max_age

\* d is nearer to an active track behind position i than to the track at i.
wanted_later(st, i, d) ==
    \E j \in (i + 1)..Len(st.tracks) :
        /\ ~skipped(st.tracks[j])
        /\ distance2(d, latest_detection(st.tracks[j])[1]) <
               distance2(d, latest_detection(st.tracks[i])[1])

MatchStep_yielding(st, i, frame_id) ==
    LET track == st.tracks[i]
    IN  IF skipped(track) THEN st
        ELSE LET left == SelectSeq(st.unmatched, LAMBDA d : ~wanted_later(st, i, d))
                 best_detection == _find_best_match(track, left)
             IN  IF best_detection # <<>>
                 THEN [tracks |-> [st.tracks EXCEPT
                                     ![i] = extend(track, best_detection[1])],
                       unmatched |-> remove(st.unmatched, best_detection[1])]
                 ELSE IF expired(frame_id, latest_detection(track)[1].frame_id)
                      THEN [st EXCEPT !.tracks[i].is_active = FALSE]
                      ELSE st

MatchStep_age_first(st, i, frame_id) ==
    LET track == st.tracks[i]
    IN  IF skipped(track) THEN st
        ELSE IF expired(frame_id, latest_detection(track)[1].frame_id)
        THEN [st EXCEPT !.tracks[i].is_active = FALSE]
        ELSE LET best_detection == _find_best_match(track, st.unmatched)
             IN  IF best_detection # <<>>
                 THEN [tracks |-> [st.tracks EXCEPT
                                     ![i] = extend(track, best_detection[1])],
                       unmatched |-> remove(st.unmatched, best_detection[1])]
                 ELSE st

\* One iteration of the matching loop (tracker.py:45-60) for the track at
\* position i; st is [tracks, unmatched].
MatchStep(st, i, frame_id) ==
    LET track == st.tracks[i]
    IN  IF skipped(track) THEN st
        ELSE LET best_detection == _find_best_match(track, st.unmatched)
             IN  IF best_detection # <<>>
                 THEN [tracks |-> [st.tracks EXCEPT
                                     ![i] = extend(track, best_detection[1])],
                       unmatched |-> remove(st.unmatched, best_detection[1])]
                 ELSE LET last_frame ==
                              IF latest_detection(track) # <<>>
                              THEN latest_detection(track)[1].frame_id ELSE 0
                      IN  IF expired(frame_id, last_frame)
                          THEN [st EXCEPT !.tracks[i].is_active = FALSE]
                          ELSE st

RECURSIVE MatchDown(_, _, _)
MatchDown(st, i, frame_id) ==
    IF i < 1 THEN st
    ELSE MatchDown(MatchStep(st, i, frame_id), i - 1, frame_id)

MatchLoop_last_first(st, i, frame_id) == MatchDown(st, Len(st.tracks), frame_id)

RECURSIVE MatchLoop(_, _, _)
MatchLoop(st, i, frame_id) ==
    IF i > Len(st.tracks) THEN st
    ELSE MatchLoop(MatchStep(st, i, frame_id), i + 1, frame_id)

\* self.tracks[key] = track: an existing key keeps its position in the dict.
RECURSIVE KeyIndex(_, _, _)
KeyIndex(ts, key, i) ==
    IF i > Len(ts) THEN 0
    ELSE IF ts[i].track_id = key THEN i ELSE KeyIndex(ts, key, i + 1)

DictSet(ts, key, track) ==
    LET k == KeyIndex(ts, key, 1)
    IN  IF k = 0 THEN Append(ts, track) ELSE [ts EXCEPT ![k] = track]

advance_stuck(track_id) == track_id

\* tracker.py:71: the counter moves on.
advance(track_id) == track_id + 1

\* The creation loop (tracker.py:63-71); st is [tracks, next_track_id].
RECURSIVE CreateLoop(_, _, _)
CreateLoop(st, unmatched, i) ==
    IF i > Len(unmatched) THEN st
    ELSE LET detection == unmatched[i]
             new_track == Track(st.next_track_id, <<detection>>, detection.timestamp)
         IN  CreateLoop([tracks |-> DictSet(st.tracks, st.next_track_id, new_track),
                         next_track_id |-> advance(st.next_track_id)],
                        unmatched, i + 1)

active_tracks_all(ts) == ts

active_tracks(ts) == SelectSeq(ts, LAMBDA t : t.is_active)

UpdateResult_counting(ts, next, detections, frame_id) ==
    LET m == MatchLoop([tracks |-> ts, unmatched |-> detections], 1, frame_id)
        c == CreateLoop([tracks |-> m.tracks, next_track_id |-> next],
                        m.unmatched, 1)
    IN  [tracks |-> c.tracks, next_track_id |-> c.next_track_id + 1,
         ret |-> active_tracks(c.tracks)]

UpdateResult_pruning(ts, next, detections, frame_id) ==
    IF detections = <<>> /\ ts = <<>>
    THEN [tracks |-> ts, next_track_id |-> next, ret |-> <<>>]
    ELSE LET m == MatchLoop([tracks |-> ts, unmatched |-> detections], 1, frame_id)
             c == CreateLoop([tracks |-> m.tracks, next_track_id |-> next],
                             m.unmatched, 1)
         IN  [tracks |-> active_tracks(c.tracks), next_track_id |-> c.next_track_id,
              ret |-> active_tracks(c.tracks)]

UpdateResult_idle_on_empty(ts, next, detections, frame_id) ==
    IF detections = <<>>
    THEN [tracks |-> ts, next_track_id |-> next, ret |-> active_tracks(ts)]
    ELSE LET m == MatchLoop([tracks |-> ts, unmatched |-> detections], 1, frame_id)
             c == CreateLoop([tracks |-> m.tracks, next_track_id |-> next],
                             m.unmatched, 1)
         IN  [tracks |-> c.tracks, next_track_id |-> c.next_track_id,
              ret |-> active_tracks(c.tracks)]

\* Tracker.update as a function of the tracker's state and the arguments:
\* [tracks, next_track_id, ret].
UpdateResult(ts, next, detections, frame_id) ==
    IF detections = <<>> /\ ts = <<>>
    THEN [tracks |-> ts, next_track_id |-> next, ret |-> <<>>]
    ELSE LET m == MatchLoop([tracks |-> ts, unmatched |-> detections], 1, frame_id)
             c == CreateLoop([tracks |-> m.tracks, next_track_id |-> next],
                             m.unmatched, 1)
         IN  [tracks |-> c.tracks, next_track_id |-> c.next_track_id,
              ret |-> active_tracks(c.tracks)]

\* ------------------------------------------------------------ the inputs
\* Top-left corners of the boxes the detector reports; every box is 3 x 3.
\* Centers one, sqrt(2) and two pixels apart occur, two being the threshold.
Boxes == {<<0, 0>>, <<1, 0>>, <<2, 0>>, <<1, 1>>}

\* The instant at which frame f was captured.
Instant(f) == 100 + f

\* The detections of one call carry one timestamp and one frame_id, as those
\* Detector.detect builds (detector.py:61, 77-87).
Det(b, f) == Detection(b[1], b[2], 3, 3, 90, "mouse", Instant(f), f)

BoxSeqs == UNION {[1..n -> Boxes] : n \in 0..MaxDets}

\* ----------------------------------------------------------- detector.py
\* One box of the model's result: corners in tenths of a pixel, confidence
\* in hundredths, class index, and whether reading the box raises IndexError
\* or ValueError.
Box(x1, y1, x2, y2, conf, cls, malformed) ==
    [x1 |-> x1, y1 |-> y1, x2 |-> x2, y2 |-> y2, conf |-> conf, cls |-> cls,
     malformed |-> malformed]

\* self.model(frame): the boxes of the result, or an exception.
Result(boxes) == [failed |-> FALSE, boxes |-> boxes]

Failure == [failed |-> TRUE, boxes |-> <<>>]

NoResult == Result(<<>>)

\* int() of a coordinate given in tenths: truncation toward zero.
int(v) == IF v >= 0 THEN v \div 10 ELSE -((-v) \div 10)

\* The class names of the loaded weights.
names == [c \in {0, 1} |-> IF c = 0 THEN "mouse" ELSE "rat"]

_get_class_name(cls_idx) ==
    IF cls_idx \in DOMAIN names THEN names[cls_idx]
    ELSE "class_" \o ToString(cls_idx)

\* detector.py:76: the filter.
kept_any_class(box) == box.conf >= confidence_threshold

kept(box) ==
    /\ _get_class_name(box.cls) = target_class
    /\ box.conf >= confidence_threshold

\* detector.py:67-69, 77-87
build(box, timestamp, frame_id) ==
    LET x1 == int(box.x1)
        y1 == int(box.y1)
        x2 == int(box.x2)
        y2 == int(box.y2)
    IN  Detection(x1, y1, x2 - x1, y2 - y1, box.conf,
                  _get_class_name(box.cls), timestamp, frame_id)

\* Detector.detect(frame, frame_id) when the model call gives result and
\* datetime.now() gives timestamp.
detect(result, frame_id, timestamp) ==
    IF result.failed THEN <<>>
    ELSE LET wellformed == SelectSeq(result.boxes, LAMBDA box : ~box.malformed)
             passing == SelectSeq(wellformed, kept)
         IN  [i \in 1..Len(passing) |-> build(passing[i], timestamp, frame_id)]

\* The box of a mouse with top-left corner b, as Det builds it.
MouseBox(b) ==
    Box(10 * b[1], 10 * b[2], 10 * (b[1] + 3), 10 * (b[2] + 3), 90, 0, FALSE)

\* Results of the model on frames that show mice only, and its failure.
MouseResults ==
    {Result([i \in 1..Len(bs) |-> MouseBox(bs[i])]) : bs \in BoxSeqs} \cup {Failure}

TotalDetections(ts) ==
    LET RECURSIVE Sum(_)
        Sum(i) == IF i = 0 THEN 0 ELSE Len(ts[i].detections) + Sum(i - 1)
    IN  Sum(Len(ts))

TrackIdsOf(ts) == {ts[i].track_id : i \in 1..Len(ts)}

\* ------------------------------------------------------------- the state
Entry == [tracks |-> tracks, next_track_id |-> next_track_id, issued |-> issued]

NoArgs == [detections |-> <<>>, frame_id |-> 0]

NoEntry == [tracks |-> <<>>, next_track_id |-> 0, issued |-> {}]

\* The reading of time.time() when the session is constructed: seconds
\* since 1970, far above alert_cooldown.
Epoch == 10

NoCheck == [tracks |-> <<>>, passed |-> <<>>, last_alert_time |-> 0,
            alerts |-> <<>>, current_time |-> 0, frame_id |-> 0]

\* DetectionSession.__init__ (cli.py:28-36) around Tracker.__init__.
InitSession ==
    /\ frame_count = 0
    /\ detection_history = <<>>
    /\ last_alert_time = 0
    /\ now = Epoch
    /\ alerts = <<>>
    /\ pc = "idle"
    /\ dets = <<>>
    /\ chk = NoCheck
    /\ written = <<>>
    /\ raw = NoResult

\* The calls that may run at once.
Threads == {1, 2}

\* The frame of a call that has not been made.
NoCall ==
    [pc |-> "idle", detections |-> <<>>, frame_id |-> 0, unmatched |-> <<>>,
     snapshot |-> 0, i |-> 0, best_detection |-> <<>>, new_track |-> <<>>,
     made |-> {}, ret |-> <<>>]

NoCalls == [of |-> [t \in Threads |-> NoCall], last |-> 0, switches |-> 0]

Init ==
    /\ InitSession
    /\ keys = <<>>
    /\ calls = NoCalls
    /\ tracks = <<>>
    /\ next_track_id = 0
    /\ op = "init"
    /\ args = NoArgs
    /\ ret = <<>>
    /\ pre = NoEntry
    /\ issued = {}

\* Tracker.update(detections, frame_id), any frame_id: the order of the
\* frame ids is the caller's business (tracker.py:29-73 does not look at it).
UpdateFrom(boxSeqs, maxFrame, maxTotal) ==
    \E bs \in boxSeqs, frame_id \in 0..maxFrame :
        LET detections == [i \in 1..Len(bs) |-> Det(bs[i], frame_id)]
            r == UpdateResult(tracks, next_track_id, detections, frame_id)
        IN  /\ TotalDetections(tracks) + Len(bs) <= maxTotal
            /\ tracks' = r.tracks
            /\ next_track_id' = r.next_track_id
            /\ ret' = r.ret
            /\ op' = "update"
            /\ args' = [detections |-> detections, frame_id |-> frame_id]
            /\ pre' = Entry
            /\ issued' = issued \cup TrackIdsOf(r.tracks)
            /\ UNCHANGED <<session, keys, calls>>

UpdateWithin(maxFrame, maxTotal) == UpdateFrom(BoxSeqs, maxFrame, maxTotal)

Update == UpdateWithin(MaxFrame, MaxTotal)

\* Tracker.reset()
Reset ==
    /\ tracks' = <<>>
    /\ next_track_id' = 0
    /\ op' = "reset"
    /\ args' = NoArgs
    /\ ret' = <<>>
    /\ pre' = NoEntry
    /\ UNCHANGED <<issued, session, keys, calls>>

\* The Tracker as DetectionSession drives it: update calls only.
Next == Update

Spec == Init /\ [][Next]_vars

\* The Tracker under all its public operations.
NextReset == Update \/ Reset

SpecReset == Init /\ [][NextReset]_vars

\* The Tracker under update calls over fewer frames and more detections,
\* so that two tracks meet two detections in one call.
NextCrowd == UpdateWithin(MaxCrowdFrame, MaxCrowdTotal)

SpecCrowd == Init /\ [][NextCrowd]_vars

\* Two mice one pixel apart and a third spot that only the first of them
\* is in reach of.
GreedyBoxes == {<<1, 0>>, <<2, 0>>, <<0, 1>>}

GreedyBoxSeqs == UNION {[1..n -> GreedyBoxes] : n \in 0..MaxDets}

NextGreedy == UpdateFrom(GreedyBoxSeqs, MaxCrowdFrame, MaxCrowdTotal)

SpecGreedy == Init /\ [][NextGreedy]_vars

\* ---------------------------------------------------------------- cli.py
\* DetectionSession._setup_alerts with the three handlers enabled, as the
\* configuration defaults have them.
alert_handlers == <<"console", "file", "log">>

Handlers == {alert_handlers[k] : k \in 1..Len(alert_handlers)}

\* The sets of handlers that raise during one _check_alerts call.
FailureSets == {F \in SUBSET Handlers : Cardinality(F) <= MaxFailing}

\* try: handler(track) / except Exception: one invocation, which returns or
\* raises; either way the loop over the handlers goes on.
invoke(log, handler, track, current_time, failing) ==
    Append(log, [handler |-> handler, track_id |-> track.track_id,
                 at |-> current_time, ok |-> handler \notin failing])

RECURSIVE HandlerLoop_uncaught(_, _, _, _, _)
HandlerLoop_uncaught(log, track, k, current_time, failing) ==
    IF k > Len(alert_handlers) THEN log
    ELSE IF alert_handlers[k] \in failing
         THEN invoke(log, alert_handlers[k], track, current_time, failing)
         ELSE HandlerLoop_uncaught(
                invoke(log, alert_handlers[k], track, current_time, failing),
                track, k + 1, current_time, failing)

RECURSIVE HandlerLoop(_, _, _, _, _)
HandlerLoop(log, track, k, current_time, failing) ==
    IF k > Len(alert_handlers) THEN log
    ELSE HandlerLoop(invoke(log, alert_handlers[k], track, current_time, failing),
                     track, k + 1, current_time, failing)

qualifies(track) == ~track.alert_sent /\ length(track) > 0

gated_inclusive(current_time, last) == current_time - last <= alert_cooldown

gated(current_time, last) == current_time - last < alert_cooldown

mark_forgotten(track) == track

mark(track) == [track EXCEPT !.alert_sent = TRUE]

\* The loop of _check_alerts over the tracks it was passed.  The elements of
\* passed are the Track objects of the map: a write to one shows in both.
RECURSIVE AlertLoop(_, _, _, _)
AlertLoop(st, i, current_time, failing) ==
    IF i > Len(st.passed) THEN st
    ELSE LET track == st.passed[i]
         IN  IF qualifies(track)
             THEN AlertLoop(
                    [tracks |-> DictSet(st.tracks, track.track_id, mark(track)),
                     passed |-> [st.passed EXCEPT ![i] = mark(track)],
                     alerts |-> HandlerLoop(st.alerts, track, 1, current_time, failing),
                     last_alert_time |-> current_time],
                    i + 1, current_time, failing)
             ELSE AlertLoop(st, i + 1, current_time, failing)

RECURSIVE MarkLoop(_, _)
MarkLoop(st, i) ==
    IF i > Len(st.passed) THEN st
    ELSE LET track == st.passed[i]
         IN  IF qualifies(track)
             THEN MarkLoop([st EXCEPT
                              !.tracks = DictSet(st.tracks, track.track_id, mark(track)),
                              !.passed[i] = mark(track)],
                           i + 1)
             ELSE MarkLoop(st, i + 1)

CheckResult_marking_suppressed(st, current_time, failing) ==
    IF gated(current_time, st.last_alert_time) THEN MarkLoop(st, 1)
    ELSE AlertLoop(st, 1, current_time, failing)

\* DetectionSession._check_alerts(tracks) reading current_time off the clock.
CheckResult(st, current_time, failing) ==
    IF gated(current_time, st.last_alert_time) THEN st
    ELSE AlertLoop(st, 1, current_time, failing)

\* datetime.isoformat: a text that determines the instant.
isoformat(t) == <<"iso", t>>

first_detection(t) ==
    IF t.detections = <<>> THEN <<>> ELSE <<t.detections[1]>>

Detection_to_dict(d) ==
    [x |-> d.x, y |-> d.y, width |-> d.width, height |-> d.height,
     confidence |-> d.confidence, class_name |-> d.class_name,
     timestamp |-> isoformat(d.timestamp), frame_id |-> d.frame_id]

Track_to_dict(t) ==
    LET first == first_detection(t)
    IN  [track_id |-> t.track_id,
         is_active |-> t.is_active,
         detection_count |-> length(t),
         first_seen |-> IF first # <<>> THEN isoformat(first[1].timestamp) ELSE <<>>,
         last_seen |-> isoformat(t.last_seen),
         alert_sent |-> t.alert_sent]

Summary_counting_all(at) ==
    [session_info |->
        [timestamp |-> isoformat(at),
         total_frames |-> frame_count,
         total_detections |-> Len(detection_history),
         total_tracks |-> Len(tracks),
         active_tracks |-> Len(tracks)],
     detections |-> [i \in 1..Len(detection_history) |->
                        Detection_to_dict(detection_history[i])],
     tracks |-> [i \in 1..Len(tracks) |-> Track_to_dict(tracks[i])]]

\* The summary _save_results builds when the clock reads at.
Summary(at) ==
    [session_info |->
        [timestamp |-> isoformat(at),
         total_frames |-> frame_count,
         total_detections |-> Len(detection_history),
         total_tracks |-> Len(tracks),
         active_tracks |-> Len(active_tracks(tracks))],
     detections |-> [i \in 1..Len(detection_history) |->
                        Detection_to_dict(detection_history[i])],
     tracks |-> [i \in 1..Len(tracks) |-> Track_to_dict(tracks[i])]]

\* ------------------------------------------------ json.dumps, json.loads
\* The text of a JSON document as the sequence of its tokens: punctuation,
\* single digits, string literals and the words true, false, null.  The
\* white space that indent=2 puts between tokens is left out.
P(c) == [t |-> "p", v |-> c]

D(n) == [t |-> "d", v |-> n]

S(str) == [t |-> "s", v |-> str]

W(word) == [t |-> "w", v |-> word]

RECURSIVE digits(_)
digits_reversed(n) ==
    IF n < 10 THEN <<D(n)>> ELSE <<D(n % 10)>> \o digits(n \div 10)

\* The decimal digits of n >= 0, most significant first.
digits(n) ==
    IF n < 10 THEN <<D(n)>> ELSE digits(n \div 10) \o <<D(n % 10)>>

\* int.__repr__
dumps_int(n) == IF n < 0 THEN <<P("-")>> \o digits(-n) ELSE digits(n)

\* float.__repr__ of a confidence given in hundredths.
dumps_float(c) ==
    digits(c \div 100) \o <<P(".")>> \o
        (IF c % 10 = 0 THEN <<D((c % 100) \div 10)>>
         ELSE <<D((c % 100) \div 10), D(c % 10)>>)

dumps_str(str) == <<S(str)>>

dumps_bool(b) == IF b THEN <<W("true")>> ELSE <<W("false")>>

\* An isoformat string, or None.
dumps_optional(v) == IF v = <<>> THEN <<W("null")>> ELSE <<S(v)>>

RECURSIVE joined(_, _)
\* The texts of parts from position i on, separated by commas.
joined(parts, i) ==
    IF i > Len(parts) THEN <<>>
    ELSE IF i = Len(parts) THEN parts[i]
    ELSE parts[i] \o <<P(",")>> \o joined(parts, i + 1)

member(key, text) == <<S(key), P(":")>> \o text

object(members) == <<P("{")>> \o joined(members, 1) \o <<P("}")>>

array(items) == <<P("[")>> \o joined(items, 1) \o <<P("]")>>

\* The dict of Detection.to_dict, keys in insertion order.
dumps_detection(d) ==
    object(<<member("x", dumps_int(d.x)),
             member("y", dumps_int(d.y)),
             member("width", dumps_int(d.width)),
             member("height", dumps_int(d.height)),
             member("confidence", dumps_float(d.confidence)),
             member("class_name", dumps_str(d.class_name)),
             member("timestamp", dumps_str(d.timestamp)),
             member("frame_id", dumps_int(d.frame_id))>>)

\* The dict of Track.to_dict.
dumps_track(t) ==
    object(<<member("track_id", dumps_int(t.track_id)),
             member("is_active", dumps_bool(t.is_active)),
             member("detection_count", dumps_int(t.detection_count)),
             member("first_seen", dumps_optional(t.first_seen)),
             member("last_seen", dumps_str(t.last_seen)),
             member("alert_sent", dumps_bool(t.alert_sent))>>)

dumps_session_info(info) ==
    object(<<member("timestamp", dumps_str(info.timestamp)),
             member("total_frames", dumps_int(info.total_frames)),
             member("total_detections", dumps_int(info.total_detections)),
             member("total_tracks", dumps_int(info.total_tracks)),
             member("active_tracks", dumps_int(info.active_tracks))>>)

\* json.dumps(summary, indent=2)
dumps(summary) ==
    object(<<member("session_info", dumps_session_info(summary.session_info)),
             member("detections",
                    array([i \in 1..Len(summary.detections) |->
                              dumps_detection(summary.detections[i])])),
             member("tracks",
                    array([i \in 1..Len(summary.tracks) |->
                              dumps_track(summary.tracks[i])]))>>)

\* json.loads: a recursive-descent parser of the token text.  Each parser
\* takes the text and a position and gives [val, next]; a float is given as
\* [hundredths |-> h].
Parsed(val, next) == [val |-> val, next |-> next]

Is(text, i, t, v) == i <= Len(text) /\ text[i].t = t /\ text[i].v = v

RECURSIVE parse_digits(_, _, _, _)
\* The digits from position i on, read most significant first: acc is the
\* number read so far, n the number of digits read.
parse_digits(text, i, acc, n) ==
    IF i <= Len(text) /\ text[i].t = "d"
    THEN parse_digits(text, i + 1, 10 * acc + text[i].v, n + 1)
    ELSE [val |-> acc, next |-> i, count |-> n]

\* A number whose first digit is at position i.
parse_unsigned(text, i) ==
    LET whole == parse_digits(text, i, 0, 0)
    IN  IF Is(text, whole.next, "p", ".")
        THEN LET frac == parse_digits(text, whole.next + 1, 0, 0)
                 h == IF frac.count = 1 THEN 10 * frac.val ELSE frac.val
             IN  Parsed([hundredths |-> 100 * whole.val + h], frac.next)
        ELSE Parsed(whole.val, whole.next)

parse_number(text, i) ==
    IF Is(text, i, "p", "-")
    THEN LET u == parse_unsigned(text, i + 1) IN Parsed(-u.val, u.next)
    ELSE parse_unsigned(text, i)

parse_word(text, i) ==
    Parsed(CASE text[i].v = "true" -> TRUE
             [] text[i].v = "false" -> FALSE
             [] text[i].v = "null" -> <<>>,
           i + 1)

RECURSIVE parse_value(_, _)
RECURSIVE parse_members(_, _, _)
RECURSIVE parse_items(_, _, _)

\* The members of an object from position i on, up to its closing brace; a
\* key read twice keeps the later value.
parse_members(text, i, acc) ==
    IF Is(text, i, "p", "}") THEN Parsed(acc, i + 1)
    ELSE LET k == IF Is(text, i, "p", ",") THEN i + 1 ELSE i
             value == parse_value(text, k + 2)
         IN  parse_members(text, value.next,
                           (text[k].v :> value.val) @@ acc)

\* The items of an array from position i on, up to its closing bracket.
parse_items(text, i, acc) ==
    IF Is(text, i, "p", "]") THEN Parsed(acc, i + 1)
    ELSE LET k == IF Is(text, i, "p", ",") THEN i + 1 ELSE i
             value == parse_value(text, k)
         IN  parse_items(text, value.next, Append(acc, value.val))

parse_value(text, i) ==
    CASE Is(text, i, "p", "{") -> parse_members(text, i + 1, <<>>)
      [] Is(text, i, "p", "[") -> parse_items(text, i + 1, <<>>)
      [] text[i].t = "s" -> Parsed(text[i].v, i + 1)
      [] text[i].t = "w" -> parse_word(text, i)
      [] OTHER -> parse_number(text, i)

loads(text) == parse_value(text, 1).val

tracker == <<tracks, next_track_id, op, args, ret, pre, issued>>

\* The frame loop of run_video reads a frame and enters process_frame, which
\* starts with self.frame_count += 1.
CountWithin(maxFrame) ==
    /\ pc = "idle"
    /\ frame_count < maxFrame
    /\ frame_count' = frame_count + 1
    /\ pc' = "detect"
    /\ UNCHANGED <<tracker, detection_history, last_alert_time, now, alerts,
                   dets, chk, written, raw,
                   keys, calls>>

Count == CountWithin(MaxSessionFrame)

\* detections = self.detector.detect(frame, self.frame_count)
DetectFrom_stale_counter(results) ==
    /\ pc = "detect"
    /\ \E result \in results :
          LET detections == detect(result, frame_count - 1, Instant(frame_count))
          IN  /\ TotalDetections(tracks) + Len(detections) <= MaxSessionTotal
              /\ dets' = detections
              /\ raw' = result
    /\ pc' = "record"
    /\ UNCHANGED <<tracker, frame_count, detection_history, last_alert_time,
                   now, alerts, chk, written,
                   keys, calls>>

\* The model call gives one of results; maxTotal bounds the detections of
\* the session.
DetectWithin(results, maxTotal) ==
    /\ pc = "detect"
    /\ \E result \in results :
          LET detections == detect(result, frame_count, Instant(frame_count))
          IN  /\ TotalDetections(tracks) + Len(detections) <= maxTotal
              /\ dets' = detections
              /\ raw' = result
    /\ pc' = "record"
    /\ UNCHANGED <<tracker, frame_count, detection_history, last_alert_time,
                   now, alerts, chk, written,
                   keys, calls>>

DetectFrom(results) == DetectWithin(results, MaxSessionTotal)

Detect == DetectFrom(MouseResults)

Record_skipped ==
    /\ pc = "record"
    /\ pc' = "update"
    /\ UNCHANGED <<tracker, frame_count, detection_history, last_alert_time,
                   now, alerts, dets, chk, written, raw,
                   keys, calls>>

\* self.detection_history.extend(detections)
Record ==
    /\ pc = "record"
    /\ detection_history' = detection_history \o dets
    /\ pc' = "update"
    /\ UNCHANGED <<tracker, frame_count, last_alert_time, now, alerts, dets,
                   chk, written, raw,
                   keys, calls>>

\* tracks = self.tracker.update(detections, self.frame_count)
TrackerUpdate ==
    LET r == UpdateResult(tracks, next_track_id, dets, frame_count)
    IN  /\ pc = "update"
        /\ tracks' = r.tracks
        /\ next_track_id' = r.next_track_id
        /\ ret' = r.ret
        /\ op' = "update"
        /\ args' = [detections |-> dets, frame_id |-> frame_count]
        /\ pre' = Entry
        /\ issued' = issued \cup TrackIdsOf(r.tracks)
        /\ pc' = "alerts"
        /\ UNCHANGED <<frame_count, detection_history, last_alert_time, now,
                       alerts, dets, chk, written, raw,
                   keys, calls>>

\* self._check_alerts(tracks), then the drawing of the frame, which writes
\* nothing of the session, and the return to the frame loop.  The clock has
\* moved on by tick since it was last read; the handlers in failing raise
\* when invoked.
CheckAlertsWithin(ticks) ==
    /\ pc = "alerts"
    /\ \E tick \in ticks, failing \in FailureSets :
          LET current_time == now + tick
              found == [tracks |-> tracks, passed |-> ret,
                        alerts |-> alerts, last_alert_time |-> last_alert_time]
              r == CheckResult(found, current_time, failing)
          IN  /\ now' = current_time
              /\ tracks' = r.tracks
              /\ ret' = r.passed
              /\ alerts' = r.alerts
              /\ last_alert_time' = r.last_alert_time
              /\ chk' = [tracks |-> tracks, passed |-> ret,
                         last_alert_time |-> last_alert_time,
                         alerts |-> alerts, current_time |-> current_time,
                         frame_id |-> frame_count]
    /\ pc' = "idle"
    /\ UNCHANGED <<next_track_id, op, args, pre, issued, frame_count,
                   detection_history, dets, written, raw,
                   keys, calls>>

CheckAlerts == CheckAlertsWithin(0..MaxTick)

SaveResults_flushing ==
    /\ pc = "idle"
    /\ \E tick \in 0..MaxTick :
          /\ now' = now + tick
          /\ written' = Append(written, Summary(now + tick))
    /\ detection_history' = <<>>
    /\ pc' = "done"
    /\ UNCHANGED <<tracker, frame_count, last_alert_time, alerts, dets, chk,
                   raw,
                   keys, calls>>

\* The finally block of run_video, entered at one of the positions from:
\* _save_results writes the summary file.
SaveFrom(from) ==
    /\ pc \in from
    /\ \E tick \in 0..MaxTick :
          /\ now' = now + tick
          /\ written' = Append(written, Summary(now + tick))
    /\ pc' = "done"
    /\ UNCHANGED <<tracker, frame_count, detection_history, last_alert_time,
                   alerts, dets, chk, raw,
                   keys, calls>>

\* The frame loop ends between two frames and the summary is written.
SaveResults == SaveFrom({"idle"})

NextSession ==
    \/ Count
    \/ Detect
    \/ Record
    \/ TrackerUpdate
    \/ CheckAlerts
    \/ SaveResults

SpecSession == Init /\ [][NextSession]_vars

\* _check_alerts when every reading of the clock is later than the one
\* before.
CheckAlertsLater == CheckAlertsWithin(1..MaxTick)

\* The session while frames keep coming and the clock keeps advancing.
NextLive ==
    \/ Count
    \/ Detect
    \/ Record
    \/ TrackerUpdate
    \/ CheckAlertsLater

\* The call of Tracker.update returns: the step TrackerUpdate seen on pc,
\* which only that step moves from "update" to "alerts".
TrackerReturns == pc = "update" /\ pc' = "alerts"

\* process_frame is straight-line code run by one thread and the frame
\* loop reads the next frame as long as there is one: every statement that
\* can run does.
Progress ==
    /\ WF_vars(Count)
    /\ WF_vars(Detect)
    /\ WF_vars(Record)
    /\ WF_pc(TrackerReturns)
    /\ WF_vars(CheckAlertsLater)

SpecSessionLive == Init /\ [][NextLive]_vars /\ Progress

\* A short session whose model reports boxes of every kind: mice above, at
\* and below the threshold, another class, a class the weights do not name,
\* an unreadable box, corners off the pixel grid, corners that truncate to
\* the same pixel, and corners in reverse order.
WideBoxes ==
    {Box(0, 0, 30, 30, 90, 0, FALSE),
     Box(20, 0, 50, 30, 70, 0, FALSE),
     Box(0, 0, 30, 30, 69, 0, FALSE),
     Box(0, 0, 30, 30, 90, 1, FALSE),
     Box(0, 0, 30, 30, 90, 2, FALSE),
     Box(0, 0, 30, 30, 90, 0, TRUE),
     Box(15, 0, 49, 30, 90, 0, FALSE),
     Box(2, 0, 9, 30, 90, 0, FALSE),
     Box(0, 30, 30, 0, 90, 0, FALSE)}

WideResults ==
    {Result(boxes) : boxes \in UNION {[1..n -> WideBoxes] : n \in 0..MaxDets}}
        \cup {Failure}

CountOnce == CountWithin(MaxDetectorFrame)

DetectWide == DetectFrom(WideResults)

NextDetector ==
    CountOnce \/ DetectWide \/ Record \/ TrackerUpdate \/ CheckAlerts \/ SaveResults

SpecDetector == Init /\ [][NextDetector]_vars

\* A long session in front of a mouse that does not move: every frame
\* shows it at the same spot.
LongResults == {Result(<<MouseBox(<<0, 0>>)>>)}

CountLong == CountWithin(MaxLongFrame)

DetectLong == DetectWithin(LongResults, MaxLongTotal)

\* The frames come at a steady rate: one clock unit apart.
CheckAlertsSteady == CheckAlertsWithin({1})

NextLong ==
    CountLong \/ DetectLong \/ Record \/ TrackerUpdate \/ CheckAlertsSteady
        \/ SaveResults

SpecLong == Init /\ [][NextLong]_vars

\* A session long enough for a track that starts in the second frame to
\* expire, in front of two spots out of each other's reach, with frames
\* coming faster than the cooldown runs out.
ExpiryResults ==
    {NoResult, Result(<<MouseBox(<<0, 0>>)>>), Result(<<MouseBox(<<2, 0>>)>>)}

CountExpiry == CountWithin(MaxExpiryFrame)

DetectExpiry == DetectWithin(ExpiryResults, MaxExpiryTotal)

CheckAlertsSoon == CheckAlertsWithin(0..MaxExpiryTick)

NextExpiry ==
    CountExpiry \/ DetectExpiry \/ Record \/ TrackerUpdate \/ CheckAlertsSoon
        \/ SaveResults

SpecExpiry == Init /\ [][NextExpiry]_vars

\* -------------------------------------------------------- rat_detector.py
\* The RatDetector of rat_detector.py on the same state: tracks,
\* next_track_id (track_id_counter), frame_count, detection_history,
\* last_alert_time, and the log of callback invocations in alerts.
\* The callbacks main() registers, in order.
alert_callbacks == <<"console", "log", "file">>

RECURSIVE CallbackLoop(_, _, _, _, _)
\* rat_detector.py:169-173: every callback is invoked, one that raises is
\* logged and the loop goes on.
CallbackLoop(log, track, k, current_time, failing) ==
    IF k > Len(alert_callbacks) THEN log
    ELSE CallbackLoop(invoke(log, alert_callbacks[k], track, current_time, failing),
                      track, k + 1, current_time, failing)

\* RatDetector._send_alert(track) when time.time() gives current_time; st is
\* [tracks, unmatched, alerts, last_alert_time].
_send_alert(st, track, current_time, failing) ==
    IF current_time - st.last_alert_time > rat_alert_cooldown
    THEN [st EXCEPT !.alerts = CallbackLoop(@, track, 1, current_time, failing),
                    !.last_alert_time = current_time]
    ELSE st

\* rat_detector.py:140-152: the nearest unmatched detection closer than
\* best_dist to the track's last one.
rat_best(track, unmatched) ==
    BestFrom(track.detections[Len(track.detections)], unmatched, 1, <<>>,
             best_dist * best_dist)

\* One iteration of the loop of update_tracks (rat_detector.py:137-160).
RatMatchStep(st, i, frame, current_time, failing) ==
    LET track == st.tracks[i]
    IN  IF ~track.is_active \/ track.detections = <<>> THEN st
        ELSE LET best == rat_best(track, st.unmatched)
             IN  IF best # <<>>
                 THEN LET extended == [track EXCEPT
                                        !.detections = Append(@, best[1]),
                                        !.last_seen = best[1].timestamp]
                          taken == [st EXCEPT
                                      !.tracks[i] = extended,
                                      !.unmatched = remove(@, best[1])]
                      IN  IF ~track.alert_sent
                          THEN [_send_alert(taken, extended, current_time, failing)
                                   EXCEPT !.tracks[i].alert_sent = TRUE]
                          ELSE taken
                 ELSE IF frame - track.detections[Len(track.detections)].frame_id
                             > max_track_age
                      THEN [st EXCEPT !.tracks[i].is_active = FALSE]
                      ELSE st

RECURSIVE RatMatchLoop(_, _, _, _, _)
RatMatchLoop(st, i, frame, current_time, failing) ==
    IF i > Len(st.tracks) THEN st
    ELSE RatMatchLoop(RatMatchStep(st, i, frame, current_time, failing),
                      i + 1, frame, current_time, failing)

\* RatDetector.update_tracks(detections) in frame number frame: the fields
\* it leaves, [tracks, next_track_id, alerts, last_alert_time].
update_tracks(ts, next, last, log, detections, frame, current_time, failing) ==
    IF detections = <<>> /\ ts = <<>>
    THEN [tracks |-> ts, next_track_id |-> next, alerts |-> log,
          last_alert_time |-> last]
    ELSE LET m == RatMatchLoop([tracks |-> ts, unmatched |-> detections,
                                alerts |-> log, last_alert_time |-> last],
                               1, frame, current_time, failing)
             c == CreateLoop([tracks |-> m.tracks, next_track_id |-> next],
                             m.unmatched, 1)
         IN  [tracks |-> c.tracks, next_track_id |-> c.next_track_id,
              alerts |-> m.alerts, last_alert_time |-> m.last_alert_time]

\* One pass of the frame loop of RatDetector.run_video (rat_detector.py:
\* 241-246): count the frame, detect, update_tracks, extend the history.
RatFrame ==
    /\ frame_count < MaxRatFrame
    /\ \E bs \in BoxSeqs, tick \in 0..MaxTick, failing \in FailureSets :
          LET frame == frame_count + 1
              detections == [i \in 1..Len(bs) |-> Det(bs[i], frame)]
              r == update_tracks(tracks, next_track_id, last_alert_time, alerts,
                                 detections, frame, now + tick, failing)
          IN  /\ TotalDetections(tracks) + Len(bs) <= MaxRatTotal
              /\ frame_count' = frame
              /\ now' = now + tick
              /\ tracks' = r.tracks
              /\ next_track_id' = r.next_track_id
              /\ alerts' = r.alerts
              /\ last_alert_time' = r.last_alert_time
              /\ detection_history' = detection_history \o detections
              /\ dets' = detections
    /\ UNCHANGED <<op, args, ret, pre, issued, pc, chk, written, raw, keys, calls>>

NextRat == RatFrame

SpecRat == Init /\ [][NextRat]_vars

\* ------------------------------------------- the legacy RatDetector
\* RatDetector.process_video of the legacy script, on a source that opens
\* and delivers frames (a source that does not is tried again), with no
\* callback raising.  pc: "idle" at the top of the outer loop, "read" at
\* the top of the frame loop, "key" at the key handling, "quit" in the
\* finally block.
\* The outer loop opens the source and enters the frame loop.
LegacyOpen ==
    /\ pc = "idle"
    /\ pc' = "read"
    /\ UNCHANGED <<tracker, frame_count, detection_history, last_alert_time,
                   now, alerts, dets, chk, written, raw,
                   keys, calls>>

\* One frame: count it, detect_rats, update_tracks, extend the history.
LegacyFrame ==
    /\ pc = "read"
    /\ frame_count < MaxLegacyFrame
    /\ \E bs \in BoxSeqs, tick \in 0..MaxTick :
          LET frame == frame_count + 1
              detections == [i \in 1..Len(bs) |-> Det(bs[i], frame)]
              r == update_tracks(tracks, next_track_id, last_alert_time, alerts,
                                 detections, frame, now + tick, {})
          IN  /\ TotalDetections(tracks) + Len(bs) <= MaxLegacyTotal
              /\ frame_count' = frame
              /\ now' = now + tick
              /\ tracks' = r.tracks
              /\ next_track_id' = r.next_track_id
              /\ alerts' = r.alerts
              /\ last_alert_time' = r.last_alert_time
              /\ detection_history' = detection_history \o detections
              /\ dets' = detections
    /\ pc' = "key"
    /\ UNCHANGED <<op, args, ret, pre, issued, chk, written, raw, keys, calls>>

\* cv2.waitKey(1) gives no key: the frame loop goes on.
LegacyNoKey ==
    /\ pc = "key"
    /\ pc' = "read"
    /\ UNCHANGED <<tracker, frame_count, detection_history, last_alert_time,
                   now, alerts, dets, chk, written, raw,
                   keys, calls>>

\* cv2.waitKey(1) gives 'q': break out of the frame loop.
LegacyQuit ==
    /\ pc = "key"
    /\ Len(written) < MaxLegacySaves
    /\ pc' = "quit"
    /\ UNCHANGED <<tracker, frame_count, detection_history, last_alert_time,
                   now, alerts, dets, chk, written, raw,
                   keys, calls>>

\* The results _save_results of the legacy script writes.
legacy_results(at) ==
    [Summary(at) EXCEPT
        !.session_info = [detection_method |-> "YOLOv8"] @@ @]

\* The finally block saves the results; no statement follows it in the
\* body of the outer while True, which starts over.
LegacyFinally ==
    /\ pc = "quit"
    /\ \E tick \in 0..MaxTick :
          /\ now' = now + tick
          /\ written' = Append(written, legacy_results(now + tick))
    /\ pc' = "idle"
    /\ UNCHANGED <<tracker, frame_count, detection_history, last_alert_time,
                   alerts, dets, chk, raw,
                   keys, calls>>

NextLegacy ==
    LegacyOpen \/ LegacyFrame \/ LegacyNoKey \/ LegacyQuit \/ LegacyFinally

SpecLegacy == Init /\ [][NextLegacy]_vars

\* ------------------------------------- two update calls on one Tracker
\* Tracker.update statement by statement (tracker.py:39-73), for two calls
\* made without a lock around them.  A call's pc is the statement it runs
\* next; a step runs one statement (or several that touch the call's own
\* variables only) and the calls take their steps in any order.  The
\* calls are update calls of one Tracker object: tracks, keys and
\* next_track_id are shared, everything in calls.of[t] is local to call t.
\* list(self.tracks.values()) holds the Track objects at positions
\* 1..snapshot of the dict; with two calls no object a matching loop still
\* holds is replaced in the dict (only line 69 replaces, under a key taken
\* from the counter, and the counter is above every key the dict held when
\* either matching loop began), so a position stands for its object.

\* Call t has run a step and its frame is now f.
Ran(t, f) ==
    [of |-> [calls.of EXCEPT ![t] = f],
     last |-> t,
     switches |-> IF calls.last \notin {0, t} /\ calls.switches < 2
                  THEN calls.switches + 1 ELSE calls.switches]

\* The frames processed one after the other before the two calls are made.
Seed ==
    /\ \A t \in Threads : calls.of[t].pc = "idle"
    /\ \E bs \in BoxSeqs, frame_id \in 0..MaxSeedFrame :
          LET detections == [i \in 1..Len(bs) |-> Det(bs[i], frame_id)]
              r == UpdateResult(tracks, next_track_id, detections, frame_id)
          IN  /\ TotalDetections(tracks) + Len(bs) <= MaxSeedTotal
              /\ tracks' = r.tracks
              /\ keys' = [i \in 1..Len(r.tracks) |-> r.tracks[i].track_id]
              /\ next_track_id' = r.next_track_id
              /\ issued' = issued \cup TrackIdsOf(r.tracks)
    /\ UNCHANGED <<op, args, ret, pre, session, calls>>

\* Both calls are made: update(detections, frame_id) twice, each with the
\* detections of a frame of its own.
Launch ==
    /\ \A t \in Threads : calls.of[t].pc = "idle"
    /\ \E bs \in [Threads -> BoxSeqs], frame_id \in [Threads -> 0..MaxCallFrame] :
          /\ \A t \in Threads : Len(bs[t]) <= MaxCallDets
          /\ calls' = [calls EXCEPT !.of =
                         [t \in Threads |->
                            [NoCall EXCEPT
                               !.pc = "begin",
                               !.detections = [i \in 1..Len(bs[t]) |->
                                                 Det(bs[t][i], frame_id[t])],
                               !.frame_id = frame_id[t]]]]
    /\ op' = "update"
    /\ pre' = Entry
    /\ UNCHANGED <<tracks, keys, next_track_id, args, ret, issued, session>>

\* tracker.py:39-42: the fast path, or the copy of the argument.
ThreadBegin(t) ==
    LET f == calls.of[t]
    IN  /\ f.pc = "begin"
        /\ calls' = Ran(t, IF f.detections = <<>> /\ tracks = <<>>
                           THEN [f EXCEPT !.pc = "done", !.ret = <<>>]
                           ELSE [f EXCEPT !.pc = "snapshot",
                                          !.unmatched = f.detections])
        /\ UNCHANGED <<tracker, keys, session>>

\* tracker.py:45: list(self.tracks.values()).
ThreadSnapshot(t) ==
    LET f == calls.of[t]
    IN  /\ f.pc = "snapshot"
        /\ calls' = Ran(t, [f EXCEPT !.pc = "for", !.snapshot = Len(tracks),
                                     !.i = 1])
        /\ UNCHANGED <<tracker, keys, session>>

\* tracker.py:45-47: the next track of the list, passed over when it is
\* inactive or empty; after the last one the creation loop begins.
ThreadFor(t) ==
    LET f == calls.of[t]
    IN  /\ f.pc = "for"
        /\ calls' = Ran(t, IF f.i > f.snapshot
                           THEN [f EXCEPT !.pc = "create", !.i = 1]
                           ELSE IF skipped(tracks[f.i])
                                THEN [f EXCEPT !.i = @ + 1]
                                ELSE [f EXCEPT !.pc = "find"])
        /\ UNCHANGED <<tracker, keys, session>>

\* tracker.py:49-51: _find_best_match on the track as it is now.
ThreadFind(t) ==
    LET f == calls.of[t]
        best_detection == _find_best_match(tracks[f.i], f.unmatched)
    IN  /\ f.pc = "find"
        /\ calls' = Ran(t, [f EXCEPT !.best_detection = best_detection,
                                     !.pc = IF best_detection # <<>>
                                            THEN "append" ELSE "age"])
        /\ UNCHANGED <<tracker, keys, session>>

\* tracker.py:52: track.detections.append(best_detection).
ThreadAppend(t) ==
    LET f == calls.of[t]
    IN  /\ f.pc = "append"
        /\ tracks' = [tracks EXCEPT
                        ![f.i].detections = Append(@, f.best_detection[1])]
        /\ calls' = Ran(t, [f EXCEPT !.pc = "seen"])
        /\ UNCHANGED <<next_track_id, op, args, ret, pre, issued, keys, session>>

ThreadSeen_keeping(t) ==
    LET f == calls.of[t]
    IN  /\ f.pc = "seen"
        /\ tracks' = [tracks EXCEPT
                        ![f.i].last_seen = f.best_detection[1].timestamp]
        /\ calls' = Ran(t, [f EXCEPT !.pc = "for", !.i = @ + 1,
                                     !.best_detection = <<>>])
        /\ UNCHANGED <<next_track_id, op, args, ret, pre, issued, keys, session>>

\* tracker.py:53-54: last_seen is set and the detection leaves the call's
\* list of unmatched detections.
ThreadSeen(t) ==
    LET f == calls.of[t]
    IN  /\ f.pc = "seen"
        /\ tracks' = [tracks EXCEPT
                        ![f.i].last_seen = f.best_detection[1].timestamp]
        /\ calls' = Ran(t, [f EXCEPT
                              !.pc = "for", !.i = @ + 1,
                              !.unmatched = remove(@, f.best_detection[1]),
                              !.best_detection = <<>>])
        /\ UNCHANGED <<next_track_id, op, args, ret, pre, issued, keys, session>>

\* tracker.py:57-59: no match; the track is deactivated when its latest
\* detection, as it is now, is more than max_age frames old.
ThreadAge(t) ==
    LET f == calls.of[t]
        track == tracks[f.i]
        last_frame == IF latest_detection(track) # <<>>
                      THEN latest_detection(track)[1].frame_id ELSE 0
    IN  /\ f.pc = "age"
        /\ tracks' = IF expired(f.frame_id, last_frame)
                     THEN [tracks EXCEPT ![f.i].is_active = FALSE]
                     ELSE tracks
        /\ calls' = Ran(t, [f EXCEPT !.pc = "for", !.i = @ + 1])
        /\ UNCHANGED <<next_track_id, op, args, ret, pre, issued, keys, session>>

\* tracker.py:63-68: the next unmatched detection and the Track built for
\* it with the counter as it is now; after the last one the call returns.
ThreadNew(t) ==
    LET f == calls.of[t]
    IN  /\ f.pc = "create"
        /\ IF f.i > Len(f.unmatched)
           THEN /\ calls' = Ran(t, [f EXCEPT !.pc = "return", !.i = 0])
                /\ UNCHANGED issued
           ELSE LET detection == f.unmatched[f.i]
                    new_track == Track(next_track_id, <<detection>>,
                                       detection.timestamp)
                IN  /\ calls' = Ran(t, [f EXCEPT
                                          !.pc = "store",
                                          !.new_track = <<new_track>>,
                                          !.made = @ \cup {next_track_id}])
                    /\ issued' = issued \cup {next_track_id}
        /\ UNCHANGED <<tracks, next_track_id, op, args, ret, pre, keys, session>>

\* tracker.py:69: self.tracks[self.next_track_id] = new_track, the counter
\* read again; a key the dict holds keeps its position and gets the value.
ThreadStore(t) ==
    LET f == calls.of[t]
        k == FirstIndex(keys, next_track_id, 1)
    IN  /\ f.pc = "store"
        /\ IF k = 0
           THEN /\ tracks' = Append(tracks, f.new_track[1])
                /\ keys' = Append(keys, next_track_id)
           ELSE /\ tracks' = [tracks EXCEPT ![k] = f.new_track[1]]
                /\ keys' = keys
        /\ calls' = Ran(t, [f EXCEPT !.pc = "incr"])
        /\ UNCHANGED <<next_track_id, op, args, ret, pre, issued, session>>

\* tracker.py:71: self.next_track_id += 1, as one statement.
ThreadIncr(t) ==
    LET f == calls.of[t]
    IN  /\ f.pc = "incr"
        /\ next_track_id' = advance(next_track_id)
        /\ calls' = Ran(t, [f EXCEPT !.pc = "create", !.i = @ + 1,
                                     !.new_track = <<>>])
        /\ UNCHANGED <<tracks, op, args, ret, pre, issued, keys, session>>

\* tracker.py:73: return self.active_tracks.
ThreadReturn(t) ==
    LET f == calls.of[t]
    IN  /\ f.pc = "return"
        /\ calls' = Ran(t, [f EXCEPT !.pc = "done",
                                     !.ret = active_tracks(tracks)])
        /\ UNCHANGED <<tracker, keys, session>>

ThreadStep ==
    \E t \in Threads :
        \/ ThreadBegin(t) \/ ThreadSnapshot(t) \/ ThreadFor(t)
        \/ ThreadFind(t) \/ ThreadAppend(t) \/ ThreadSeen(t)
        \/ ThreadAge(t) \/ ThreadNew(t) \/ ThreadStore(t)
        \/ ThreadIncr(t) \/ ThreadReturn(t)

NextThreads == Seed \/ Launch \/ ThreadStep

SpecThreads == Init /\ [][NextThreads]_vars

\* run_video with the ways its frame loop ends told apart.
\* cap.read() gives no frame.
EndOfStream ==
    /\ pc = "idle"
    /\ pc' = "eof"
    /\ UNCHANGED <<tracker, frame_count, detection_history, last_alert_time,
                   now, alerts, dets, chk, written, raw,
                   keys, calls>>

\* cv2.waitKey gives 'q' after a frame.
Quit ==
    /\ pc = "idle"
    /\ frame_count > 0
    /\ pc' = "quit"
    /\ UNCHANGED <<tracker, frame_count, detection_history, last_alert_time,
                   now, alerts, dets, chk, written, raw,
                   keys, calls>>

Raise_unwinding ==
    /\ pc \in {"detect", "record", "update", "alerts"} \/ (pc = "idle" /\ frame_count > 0)
    /\ pc' = "done"
    /\ UNCHANGED <<tracker, frame_count, detection_history, last_alert_time,
                   now, alerts, dets, chk, written, raw,
                   keys, calls>>

\* A statement of the loop body raises: inside process_frame, or after it
\* (rendering, preview, writer, key handling).
Raise ==
    /\ pc \in {"detect", "record", "update", "alerts"} \/ (pc = "idle" /\ frame_count > 0)
    /\ pc' = "raised"
    /\ UNCHANGED <<tracker, frame_count, detection_history, last_alert_time,
                   now, alerts, dets, chk, written, raw,
                   keys, calls>>

Ended == {"eof", "quit", "raised"}

Finally == SaveFrom(Ended)

CountVideo == CountWithin(MaxVideoFrame)

DetectVideo == DetectWithin(MouseResults, MaxVideoTotal)

NextVideo ==
    \/ CountVideo
    \/ DetectVideo
    \/ Record
    \/ TrackerUpdate
    \/ CheckAlerts
    \/ EndOfStream
    \/ Quit
    \/ Raise
    \/ Finally

\* The finally block runs when the loop has ended.
SpecVideo == Init /\ [][NextVideo]_vars /\ WF_vars(Finally)

\* ------------------------------------------- reading the last update call
Called == op = "update"

\* Positions of the tracks that were in the map on entry to the call.
Old == 1..Len(pre.tracks)

\* Positions of the tracks the call added to the map.
New == (Len(pre.tracks) + 1)..Len(tracks)

Kept == Len(tracks) >= Len(pre.tracks)

Last(s) == s[Len(s)]

\* <<d>> when the call put d at the end of the track at position i, else <<>>.
appended(i) ==
    IF Len(tracks[i].detections) > Len(pre.tracks[i].detections)
    THEN <<Last(tracks[i].detections)>> ELSE <<>>

WasActive(i) == pre.tracks[i].is_active

\* Frames between the call and the latest detection the track had on entry.
Age(i) == args.frame_id - Last(pre.tracks[i].detections).frame_id

\* ------------------------------------------------------------------ C1
\* C1: after update(dets, f) a track that was active on entry and got no
\* match is inactive exactly when f minus the frame_id of its latest
\* detection exceeds max_age, and the returned active tracks leave it out
\* exactly then.
C1_Expiry ==
    Called => /\ Kept
              /\ \A i \in Old :
                    (WasActive(i) /\ appended(i) = <<>>) =>
                        /\ tracks[i].is_active <=> ~(Age(i) > max_age)
                        /\ (\E k \in 1..Len(ret) :
                                ret[k].track_id = tracks[i].track_id)
                           <=> ~(Age(i) > max_age)

\* One call expires a track max_age + 1 frames old and keeps one max_age old.
C1_Witness ==
    /\ Called
    /\ \E i, j \in Old :
          /\ WasActive(i) /\ appended(i) = <<>> /\ Age(i) = max_age + 1
          /\ ~tracks[i].is_active
          /\ WasActive(j) /\ appended(j) = <<>> /\ Age(j) = max_age
          /\ tracks[j].is_active

\* ------------------------------------------------------------------ C2
\* C2: a track that is inactive on entry to an update call leaves the call
\* as it entered it: still inactive, with the same detections and the same
\* last_seen, whatever detections the call brings.
C2_InactiveTerminal ==
    Called => /\ Kept
              /\ \A i \in Old :
                    ~WasActive(i) =>
                        /\ ~tracks[i].is_active
                        /\ tracks[i].detections = pre.tracks[i].detections
                        /\ tracks[i].last_seen = pre.tracks[i].last_seen

\* An inactive track is offered a detection at its own position and the
\* detection starts another track.
C2_Witness ==
    /\ Called
    /\ \E i \in Old, k \in 1..Len(args.detections), n \in New :
          /\ ~WasActive(i)
          /\ distance2(args.detections[k], Last(pre.tracks[i].detections)) = 0
          /\ tracks[i] = pre.tracks[i]
          /\ tracks[n].detections = <<args.detections[k]>>

\* ------------------------------------------------------------------ C3
Range(s) == {s[k] : k \in DOMAIN s}

SeqBag(s) == [v \in Range(s) |-> Cardinality({k \in DOMAIN s : s[k] = v})]

One(a) == IF a = <<>> THEN EmptyBag ELSE SetToBag({a[1]})

\* The detections the tracks before position i took in the call.
RECURSIVE TakenBefore(_)
TakenBefore(i) ==
    IF i <= 1 THEN EmptyBag ELSE TakenBefore(i - 1) (+) One(appended(i - 1))

\* The detections still unmatched when the track at position i is visited.
Offered(i) == SeqBag(args.detections) (-) TakenBefore(i)

ToTrack(d, i) == distance2(d, Last(pre.tracks[i].detections))

InReach(d, i) == ToTrack(d, i) < distance_threshold * distance_threshold

Near(i) == {d \in BagToSet(Offered(i)) : InReach(d, i)}

\* The detections that seed the tracks the call added.
Seeds == [n \in 1..(Len(tracks) - Len(pre.tracks)) |->
             tracks[Len(pre.tracks) + n].detections[1]]

\* C3: in update each active track, in map order, takes from the detections
\* still unmatched one that is nearest to its latest detection among those
\* strictly within distance_threshold (none when there is none); it is put
\* at the end of the track and is no longer unmatched, so it seeds no track.
C3_NearestMatch ==
    Called =>
        /\ Kept
        /\ \A i \in Old :
              WasActive(i) =>
                 IF Near(i) = {} THEN appended(i) = <<>>
                 ELSE /\ appended(i) # <<>>
                      /\ appended(i)[1] \in Near(i)
                      /\ \A e \in Near(i) : ToTrack(appended(i)[1], i) <= ToTrack(e, i)
                      /\ tracks[i].detections =
                            Append(pre.tracks[i].detections, appended(i)[1])
        /\ SeqBag(Seeds) = Offered(Len(pre.tracks) + 1)

\* The only track is offered two detections within reach, the nearer one
\* listed second: it takes the nearer one (length 2) and the other one starts
\* the only new track.
C3_Witness ==
    /\ Called
    /\ Len(pre.tracks) = 1 /\ WasActive(1) /\ Len(pre.tracks[1].detections) = 1
    /\ Len(args.detections) = 2
    /\ InReach(args.detections[1], 1) /\ InReach(args.detections[2], 1)
    /\ ToTrack(args.detections[2], 1) < ToTrack(args.detections[1], 1)
    /\ 0 < ToTrack(args.detections[2], 1)
    /\ tracks[1].detections = Append(pre.tracks[1].detections, args.detections[2])
    /\ Len(tracks) = 2
    /\ tracks[2].detections = <<args.detections[1]>>

\* ------------------------------------------------------------------ C4
Copies(d, s) == Cardinality({k \in DOMAIN s : s[k] = d})

OutOfReach(d) == \A i \in Old : WasActive(i) => ~InReach(d, i)

\* C4: a detection at distance_threshold or more from the latest detection
\* of every active track joins no track in update and starts a track of its
\* own; a detection at exactly distance_threshold is such a detection.
C4_FarStartsTrack ==
    Called =>
        /\ Kept
        /\ \A k \in 1..Len(args.detections) :
              LET d == args.detections[k]
              IN  OutOfReach(d) =>
                    /\ \A i \in Old : appended(i) # <<d>>
                    /\ Copies(d, Seeds) = Copies(d, args.detections)
                    /\ \E n \in New :
                          /\ tracks[n].detections = <<d>>
                          /\ \A i \in Old : tracks[i].track_id # tracks[n].track_id

\* A detection exactly distance_threshold from the only active track starts
\* a second track and the first one takes nothing.
C4_Witness ==
    /\ Called
    /\ Len(pre.tracks) = 1 /\ WasActive(1)
    /\ Len(args.detections) = 1
    /\ ToTrack(args.detections[1], 1) = distance_threshold * distance_threshold
    /\ appended(1) = <<>>
    /\ Len(tracks) = 2
    /\ tracks[2].detections = args.detections

\* ------------------------------------------------------------------ C5
\* s is t with some elements left out, the others in t's order.
RECURSIVE IsSubSeq(_, _)
IsSubSeq(s, t) ==
    IF s = <<>> THEN TRUE
    ELSE IF t = <<>> THEN FALSE
    ELSE IF Head(s) = Head(t) THEN IsSubSeq(Tail(s), Tail(t))
    ELSE IsSubSeq(s, Tail(t))

\* C5: the detections update leaves unmatched each start one track, in the
\* order of the input; a new track is active, has alert_sent false, holds
\* that detection only (no other detection of the call joins it) and the
\* new ids count up from the next_track_id the call found.  On a fresh
\* tracker one detection gives one returned track, with id 0.
C5_Creation ==
    Called =>
        /\ Kept
        /\ SeqBag(Seeds) = Offered(Len(pre.tracks) + 1)
        /\ IsSubSeq(Seeds, args.detections)
        /\ \A n \in New :
              /\ Len(tracks[n].detections) = 1
              /\ tracks[n].is_active
              /\ ~tracks[n].alert_sent
              /\ tracks[n].track_id = pre.next_track_id + (n - Len(pre.tracks) - 1)
        /\ next_track_id = pre.next_track_id + (Len(tracks) - Len(pre.tracks))
        /\ (pre.tracks = <<>> /\ pre.next_track_id = 0 /\ Len(args.detections) = 1)
              => (Len(ret) = 1 /\ ret[1].track_id = 0
                  /\ ret[1].detections = args.detections)

\* Beside an older track, two detections within reach of each other arrive
\* in one call and start two tracks, with the next two ids in input order.
C5_Witness ==
    /\ Called
    /\ Len(pre.tracks) = 1 /\ pre.next_track_id = 1
    /\ Len(args.detections) = 2
    /\ args.detections[1] # args.detections[2]
    /\ distance2(args.detections[1], args.detections[2])
          < distance_threshold * distance_threshold
    /\ Len(tracks) = 3
    /\ tracks[2].track_id = 1 /\ tracks[2].detections = <<args.detections[1]>>
    /\ tracks[3].track_id = 2 /\ tracks[3].detections = <<args.detections[2]>>
    /\ next_track_id = 3

\* ------------------------------------------------------------------ C7
\* The detections the call put into the track at position i.
Added(i) ==
    IF i \in Old /\ Len(tracks[i].detections) >= Len(pre.tracks[i].detections)
    THEN SubSeq(tracks[i].detections, Len(pre.tracks[i].detections) + 1,
                Len(tracks[i].detections))
    ELSE tracks[i].detections

RECURSIVE AddedUpTo(_)
AddedUpTo(i) == IF i = 0 THEN EmptyBag ELSE AddedUpTo(i - 1) (+) SeqBag(Added(i))

\* C7: the detections an update call puts into tracks are, counted with
\* their repetitions, the detections of its input: none is dropped and none
\* is placed twice, also when the input holds equal detections.
C7_EachDetectionOnce ==
    Called => /\ Kept
              /\ AddedUpTo(Len(tracks)) = SeqBag(args.detections)
              /\ \A i \in 1..Len(tracks) : Len(Added(i)) <= 1

\* An input of two equal detections: one joins the existing track, the
\* other starts a track.
C7_Witness ==
    /\ Called
    /\ Len(pre.tracks) = 1
    /\ Len(args.detections) = 2
    /\ args.detections[1] = args.detections[2]
    /\ Added(1) = <<args.detections[1]>>
    /\ Len(tracks) = 2
    /\ Added(2) = <<args.detections[2]>>

\* ------------------------------------------------------------------ C6
\* d is in reach of the track at position i and no detection of the bag is
\* nearer to it.
BestOf(d, i, bag) ==
    /\ InReach(d, i)
    /\ \A e \in BagToSet(bag) : ToTrack(d, i) <= ToTrack(e, i)

\* Detection d, unmatched when the track at i is visited and not repeated in
\* the input, is a best candidate of the tracks at i and at j, i before j.
Contested(d, i, j) ==
    /\ i \in Old /\ j \in Old /\ i < j
    /\ WasActive(i) /\ WasActive(j)
    /\ BagIn(d, Offered(i)) /\ CopiesIn(d, Offered(i)) = 1
    /\ BestOf(d, i, Offered(i)) /\ BestOf(d, j, Offered(i))

Reorderings(s) ==
    {[k \in DOMAIN s |-> s[f[k]]] :
        f \in {g \in [DOMAIN s -> DOMAIN s] : \A a, b \in DOMAIN s : a # b => g[a] # g[b]}}

\* What the call does to the tracks it found, had its input been listed as p.
OldTracksFor(p) ==
    LET r == UpdateResult(pre.tracks, pre.next_track_id, p, args.frame_id)
    IN  [i \in Old |-> r.tracks[i]]

OrderFree == \A p \in Reorderings(args.detections) :
                 OldTracksFor(p) = [i \in Old |-> tracks[i]]

\* C6 as claimed: a detection that is a best candidate of two active tracks
\* goes to the one first in the map and not to the other, and what the
\* tracks receive is the same for every order of the input list.
C6_Original ==
    Called =>
        \A i, j \in Old : \A d \in Range(args.detections) :
            Contested(d, i, j) =>
                /\ appended(i) = <<d>>
                /\ appended(j) # <<d>>
                /\ OrderFree

\* The input without what the tracks before position i took, in input order.
RECURSIVE UnmatchedAt(_)
UnmatchedAt(i) ==
    IF i <= 1 THEN args.detections
    ELSE IF appended(i - 1) = <<>> THEN UnmatchedAt(i - 1)
    ELSE remove(UnmatchedAt(i - 1), appended(i - 1)[1])

\* No other unmatched detection is as near to the track at i as d is.
SoleBest(d, i) ==
    \A e \in BagToSet(Offered(i)) : e # d => ToTrack(d, i) < ToTrack(e, i)

\* No two different detections of the input are equally near to a track
\* they are in reach of.
NoEqualReach ==
    \A i \in Old : \A d, e \in Range(args.detections) :
        (WasActive(i) /\ d # e /\ InReach(d, i) /\ InReach(e, i))
            => ToTrack(d, i) # ToTrack(e, i)

\* C6 as it holds: a detection that is a best candidate of two active tracks
\* (equally distant from both or not) and the only nearest one of the first
\* of them goes to that track and not to the other.  Among detections
\* equally near to a track the one listed first is taken, so the order of
\* the input decides there; without such equal distances what the tracks
\* receive is the same for every order of the input list.
C6_TrackOrderTie ==
    Called =>
        /\ Kept
        /\ \A i, j \in Old : \A d \in Range(args.detections) :
              (Contested(d, i, j) /\ SoleBest(d, i)) =>
                  /\ appended(i) = <<d>>
                  /\ appended(j) # <<d>>
        /\ \A i \in Old :
              appended(i) # <<>> =>
                  LET u == UnmatchedAt(i)
                  IN  \E k \in 1..Len(u) :
                         /\ u[k] = appended(i)[1]
                         /\ \A m \in 1..(k - 1) :
                               ToTrack(u[m], i) > ToTrack(u[k], i)
        /\ NoEqualReach => OrderFree

\* Two active tracks and one detection equally distant from both: the first
\* track in the map takes it and the second takes nothing.
C6_Witness ==
    /\ Called
    /\ Len(args.detections) = 1
    /\ \E i, j \in Old :
          /\ Contested(args.detections[1], i, j)
          /\ ToTrack(args.detections[1], i) = ToTrack(args.detections[1], j)
          /\ ToTrack(args.detections[1], i) > 0
          /\ appended(i) = args.detections
          /\ appended(j) = <<>>
          /\ tracks[j].is_active

\* ------------------------------------------------------------------ C8
\* C8 as claimed: over update and reset calls every id given to a new track
\* is greater than every id given before, so no id is given twice.
C8_Original ==
    Called => \A n \in New : \A id \in pre.issued : tracks[n].track_id > id

\* C8 as it holds: the ids in the map increase strictly in map order and
\* stay below next_track_id, so every id an update call gives is greater
\* than every id given since the map was last empty and none is given twice
\* in between; reset empties the map and puts next_track_id back to 0, and
\* the first track made after it has id 0 again.
C8_IdsBetweenResets ==
    /\ \A i, j \in 1..Len(tracks) : i < j => tracks[i].track_id < tracks[j].track_id
    /\ \A i \in 1..Len(tracks) : tracks[i].track_id < next_track_id
    /\ Called => /\ Kept
                 /\ \A i \in Old : tracks[i].track_id = pre.tracks[i].track_id
                 /\ \A n \in New : tracks[n].track_id >= pre.next_track_id
    /\ op = "reset" => (tracks = <<>> /\ next_track_id = 0)
    /\ (Called /\ pre.tracks = <<>> /\ New # {}) => tracks[1].track_id = 0

\* After a reset an update call makes a track with an id that an earlier
\* track had.
C8_Witness ==
    /\ Called
    /\ \E n \in New : tracks[n].track_id \in pre.issued
    /\ Len(tracks) = 2

\* ------------------------------------------------------------------ C9
\* C9: every track of the map holds at least one detection, and an update
\* call leaves the detections of a track it found as they were or puts one
\* detection after them.
C9_AppendOnly ==
    /\ \A i \in 1..Len(tracks) : Len(tracks[i].detections) >= 1
    /\ Called =>
          /\ Kept
          /\ \A i \in Old :
                \/ tracks[i].detections = pre.tracks[i].detections
                \/ /\ Len(tracks[i].detections) = Len(pre.tracks[i].detections) + 1
                   /\ SubSeq(tracks[i].detections, 1, Len(pre.tracks[i].detections))
                         = pre.tracks[i].detections

\* A track of two different detections takes a third one.
C9_Witness ==
    /\ Called
    /\ Len(args.detections) = 1
    /\ \E i \in Old :
          /\ Len(pre.tracks[i].detections) = 2
          /\ pre.tracks[i].detections[1] # pre.tracks[i].detections[2]
          /\ tracks[i].detections = Append(pre.tracks[i].detections, args.detections[1])
          /\ args.detections[1] \notin Range(pre.tracks[i].detections)

\* ----------------------------------------------------------------- C10
\* Position in the map of the track with the id of the k-th returned track.
PosOf(k) == CHOOSE i \in 1..Len(tracks) : tracks[i].track_id = ret[k].track_id

\* C10: update returns the tracks of the map that are active after the call,
\* each once and in map order, as they are in the map.
C10_ReturnsActive ==
    Called =>
        /\ \A k \in 1..Len(ret) :
              /\ \E i \in 1..Len(tracks) : tracks[i] = ret[k]
              /\ ret[k].is_active
        /\ \A k, m \in 1..Len(ret) : k < m => PosOf(k) < PosOf(m)
        /\ \A i \in 1..Len(tracks) :
              tracks[i].is_active => \E k \in 1..Len(ret) : ret[k] = tracks[i]

\* One call expires the only track and makes a second one: the second one
\* alone is returned.
C10_Witness ==
    /\ Called
    /\ Len(pre.tracks) = 1 /\ Len(tracks) = 2
    /\ WasActive(1) /\ ~tracks[1].is_active
    /\ ret = <<tracks[2]>>

\* ------------------------------------------------------------------ C11
\* C11: update([], f) on a Tracker whose map is empty returns the empty
\* list and leaves the map empty and next_track_id as it was, for every f
\* and after every earlier call.
C11_IdleCall ==
    (Called /\ pre.tracks = <<>> /\ args.detections = <<>>) =>
        /\ ret = <<>>
        /\ tracks = pre.tracks
        /\ next_track_id = pre.next_track_id
        /\ issued = pre.issued

C11_Witness ==
    /\ Called
    /\ pre.tracks = <<>>
    /\ args.detections = <<>>
    /\ args.frame_id = MaxFrame

\* ------------------------------------------------------------------ C12
\* C12: an update call removes no entry of the track map: every track that
\* was in the map on entry is in it afterwards at the same place under the
\* same id, inactive ones included, so the set of track ids only grows and
\* every id handed out so far is still a key of the map.
C12_NoRemoval ==
    Called => /\ Kept
              /\ \A i \in Old : tracks[i].track_id = pre.tracks[i].track_id
              /\ TrackIdsOf(pre.tracks) \subseteq TrackIdsOf(tracks)
              /\ issued = TrackIdsOf(tracks)

\* An update that finds one track inactive, deactivates another and keeps
\* both in the map.
C12_Witness ==
    /\ Called
    /\ Kept
    /\ \E i, j \in Old :
          /\ ~WasActive(i)
          /\ ~tracks[i].is_active
          /\ WasActive(j)
          /\ ~tracks[j].is_active
    /\ ret = <<>>

\* ----------------------------------------- reading the last alert check
\* The last statement that ran is the _check_alerts call of the current
\* frame (or the writing of the summary after it): chk is the session as
\* that call found it, the variables are what it left.
Checked == pc \in {"idle", "done"} /\ frame_count > 0 /\ chk.frame_id = frame_count

\* Positions in the list of tracks the check was passed.
Passed == 1..Len(chk.passed)

\* The handler invocations the check made.
Fresh == SubSeq(alerts, Len(chk.alerts) + 1, Len(alerts))

FreshFor(id) == SelectSeq(Fresh, LAMBDA a : a.track_id = id)

Elapsed == chk.current_time - chk.last_alert_time >= alert_cooldown

Eligible(t) == t.alert_sent = FALSE /\ Len(t.detections) >= 1

\* The track of the map with the given id, as it is now.
TrackNow(id) == tracks[CHOOSE i \in 1..Len(tracks) : tracks[i].track_id = id]

\* ------------------------------------------------------------------ C13
\* C13: when two tracks with alert_sent false are passed to one alert check
\* and the cooldown has elapsed, handlers are invoked only for the first of
\* them in map order and the second keeps alert_sent = false after the pass.
C13_Original ==
    (Checked /\ Elapsed) =>
        \A i, j \in Passed :
            (i < j /\ Eligible(chk.passed[i]) /\ Eligible(chk.passed[j])) =>
                /\ FreshFor(chk.passed[j].track_id) = <<>>
                /\ TrackNow(chk.passed[j].track_id).alert_sent = FALSE

\* ------------------------------------------------------------------ C14
\* C14: an alert check made less than alert_cooldown after last_alert_time
\* invokes no handler and leaves every alert_sent and last_alert_time as
\* they were; a check made alert_cooldown or more after it invokes the
\* handlers for the qualifying tracks it was passed, marks them and sets
\* last_alert_time to its time.  Handler invocations made at different
\* times are at least alert_cooldown apart.
C14_Cooldown ==
    /\ (Checked /\ ~Elapsed) =>
          /\ alerts = chk.alerts
          /\ tracks = chk.tracks
          /\ last_alert_time = chk.last_alert_time
    /\ (Checked /\ Elapsed) =>
          \A i \in Passed :
              Eligible(chk.passed[i]) =>
                  /\ FreshFor(chk.passed[i].track_id) # <<>>
                  /\ TrackNow(chk.passed[i].track_id).alert_sent
                  /\ last_alert_time = chk.current_time
    /\ \A a, b \in 1..Len(alerts) :
          alerts[a].at < alerts[b].at =>
              alerts[b].at - alerts[a].at >= alert_cooldown

\* A check made exactly alert_cooldown after the last alert fires for a
\* track that an earlier, suppressed check had been passed.
C14_Witness ==
    /\ Checked
    /\ chk.last_alert_time > 0
    /\ chk.current_time - chk.last_alert_time = alert_cooldown
    /\ \E i \in Passed :
          /\ Eligible(chk.passed[i])
          /\ chk.passed[i].detections[1].frame_id < frame_count
          /\ FreshFor(chk.passed[i].track_id) # <<>>

\* ------------------------------------------------------------------ C15
\* C15: over the frames of a session no handler is invoked twice for one
\* track; handlers are invoked only for tracks that were passed to the check
\* with alert_sent false and at least one detection, every handler once; and
\* no step of process_frame turns an alert_sent from true to false.
C15_OncePerTrack ==
    /\ \A a, b \in 1..Len(alerts) :
          (alerts[a].handler = alerts[b].handler
           /\ alerts[a].track_id = alerts[b].track_id) => a = b
    /\ Checked =>
          /\ \A a \in 1..Len(Fresh) :
                \E i \in Passed : /\ chk.passed[i].track_id = Fresh[a].track_id
                                  /\ Eligible(chk.passed[i])
          /\ Len(tracks) = Len(chk.tracks)
          /\ \A i \in 1..Len(chk.tracks) :
                chk.tracks[i].alert_sent => tracks[i].alert_sent
    /\ (Called /\ pc = "alerts") =>
          /\ Kept
          /\ \A i \in Old : pre.tracks[i].alert_sent => tracks[i].alert_sent
    /\ \A i \in 1..Len(tracks) :
          tracks[i].alert_sent =>
              \A h \in Handlers :
                  \E a \in 1..Len(alerts) : /\ alerts[a].handler = h
                                            /\ alerts[a].track_id = tracks[i].track_id

\* A check that fires for one track is also passed a track alerted in an
\* earlier frame and leaves that one alone.
C15_Witness ==
    /\ Checked
    /\ Elapsed
    /\ Fresh # <<>>
    /\ \E i \in Passed :
          /\ chk.passed[i].alert_sent
          /\ FreshFor(chk.passed[i].track_id) = <<>>
          /\ TrackNow(chk.passed[i].track_id).alert_sent

\* ------------------------------------------------------------------ C17
\* C17: when a handler raises while a track is alerted, the handlers after
\* it are still invoked for that track, in registration order; the track is
\* marked alert_sent and last_alert_time is set to the time of the check;
\* the frame loop goes on to the next frame.
C17_FailureCaught ==
    Checked =>
        \A i \in Passed :
            LET invocations == FreshFor(chk.passed[i].track_id)
            IN  invocations # <<>> =>
                    /\ [k \in 1..Len(invocations) |-> invocations[k].handler] = alert_handlers
                    /\ TrackNow(chk.passed[i].track_id).alert_sent
                    /\ last_alert_time = chk.current_time

\* The first handler raises for a track and the frame after that one is
\* being processed.
C17_Witness ==
    /\ pc = "alerts"
    /\ frame_count = chk.frame_id + 1
    /\ \E a \in 1..Len(alerts) :
          /\ a + 2 <= Len(alerts)
          /\ alerts[a].at = chk.current_time
          /\ alerts[a].handler = alert_handlers[1]
          /\ ~alerts[a].ok
          /\ alerts[a + 1].ok /\ alerts[a + 1].track_id = alerts[a].track_id
          /\ alerts[a + 2].ok /\ alerts[a + 2].track_id = alerts[a].track_id
          /\ \E i \in 1..Len(tracks) : /\ tracks[i].track_id = alerts[a].track_id
                                       /\ tracks[i].alert_sent
    /\ last_alert_time = chk.current_time

\* ------------------------------------------------------------------ C18
\* The detections of frame f in the session history.
HistoryOf(f) == SelectSeq(detection_history, LAMBDA d : d.frame_id = f)

\* The tracker has not been called for the current frame.
NotTracked == op = "update" => args.frame_id < frame_count

C19_Summary ==
    pc = "done" =>
        LET s == Last(written)
        IN  /\ s.session_info.total_frames = chk.frame_id
            /\ s.session_info.total_frames = frame_count
            /\ s.session_info.total_detections = Len(detection_history)
            /\ s.session_info.total_tracks = Len(tracks)
            /\ s.session_info.active_tracks =
                  Cardinality({i \in 1..Len(tracks) : tracks[i].is_active})
            /\ s.session_info.active_tracks <= s.session_info.total_tracks
            /\ Len(s.tracks) = Len(tracks)
            /\ \A i \in 1..Len(tracks) :
                  /\ s.tracks[i].track_id = tracks[i].track_id
                  /\ s.tracks[i].is_active = tracks[i].is_active
                  /\ s.tracks[i].detection_count = Len(tracks[i].detections)
                  /\ s.tracks[i].alert_sent = tracks[i].alert_sent

\* A summary of three frames with an expired track and an active one that
\* holds two detections.
C19_Witness ==
    /\ pc = "done"
    /\ Len(written) = 1
    /\ written[1].session_info.total_frames = 3
    /\ written[1].session_info.total_detections = 3
    /\ written[1].session_info.total_tracks = 2
    /\ written[1].session_info.active_tracks = 1
    /\ \E i \in 1..2 : /\ written[1].tracks[i].detection_count = 2
                       /\ written[1].tracks[i].alert_sent

\* ------------------------------------------------------------------ C20
\* C20: the step that produces the session summary leaves the track map
\* (every track's detections, last_seen, is_active and alert_sent),
\* next_track_id, the detection history, the frame counter and
\* last_alert_time as they were.
C20_PureRead ==
    [][pc' = "done" =>
          UNCHANGED <<tracks, next_track_id, detection_history, frame_count,
                      last_alert_time,
                   keys, calls>>]_vars

C20_Witness ==
    /\ pc = "done"
    /\ written # <<>>
    /\ detection_history # <<>>
    /\ last_alert_time > 0
    /\ \E i, j \in 1..Len(tracks) : tracks[i].alert_sent /\ ~tracks[j].is_active

\* ------------------------------------------------------------------ C16
TrackIds == 0..(MaxSessionTotal - 1)

\* The track with this id is in the map, active and not yet alerted.
Waiting(id) ==
    \E i \in 1..Len(tracks) : /\ tracks[i].track_id = id
                              /\ tracks[i].is_active
                              /\ ~tracks[i].alert_sent

\* Every handler has been invoked for the track and it is marked.
Alerted(id) ==
    /\ \E i \in 1..Len(tracks) : tracks[i].track_id = id /\ tracks[i].alert_sent
    /\ \A h \in Handlers :
          \E a \in 1..Len(alerts) : alerts[a].handler = h /\ alerts[a].track_id = id

Expired(id) ==
    \E i \in 1..Len(tracks) : tracks[i].track_id = id /\ ~tracks[i].is_active

\* Frames enough are left for the cooldown to run out, the clock advancing
\* by at least one at every check.
FramesLeft == frame_count + alert_cooldown <= MaxSessionFrame + 1

\* C16: while frames keep being processed and the clock keeps advancing, a
\* track that is active with alert_sent false is eventually alerted (every
\* handler invoked, alert_sent true) unless it stops being active first; a
\* qualifying track that a pass did not alert is left with alert_sent false,
\* and only a cooldown that has not run out keeps a pass from alerting it.
C16_EventuallyAlerted ==
    /\ \A id \in TrackIds :
          (pc = "idle" /\ FramesLeft /\ Waiting(id)) ~> (Alerted(id) \/ Expired(id))
    /\ [](Checked =>
            \A i \in Passed :
                (Eligible(chk.passed[i]) /\ FreshFor(chk.passed[i].track_id) = <<>>) =>
                    /\ ~TrackNow(chk.passed[i].track_id).alert_sent
                    /\ ~Elapsed)

\* A track made in a frame whose check the cooldown suppressed is alerted by
\* the check of the next frame.
C16_Witness ==
    /\ Checked
    /\ Elapsed
    /\ \E i \in Passed :
          /\ Eligible(chk.passed[i])
          /\ chk.passed[i].detections[1].frame_id < frame_count
          /\ Alerted(chk.passed[i].track_id)
          /\ FreshFor(chk.passed[i].track_id) # <<>>

\* ------------------------------------------------------------------ C25
\* C25: after any sequence of update calls every track of the map has
\* last_seen equal to the timestamp of its latest detection, the one
\* appended last.
C25_LastSeen ==
    \A i \in 1..Len(tracks) :
        /\ tracks[i].detections # <<>>
        /\ tracks[i].last_seen = Last(tracks[i].detections).timestamp

\* An update appends to a track a detection whose timestamp is not the one
\* the track had before, here an earlier one.
C25_Witness ==
    /\ Called
    /\ \E i \in Old :
          /\ appended(i) # <<>>
          /\ appended(i)[1].timestamp < pre.tracks[i].last_seen
          /\ tracks[i].last_seen = appended(i)[1].timestamp

\* ------------------------------------------------------------------ C30
\* An earlier update call of this Tracker was made with a higher frame_id
\* than the last one: a track holds a detection of a later frame.
OutOfOrder ==
    \E i \in Old :
        \E k \in 1..Len(pre.tracks[i].detections) :
            pre.tracks[i].detections[k].frame_id > args.frame_id

C23_AscendingVisits ==
    /\ \A i, j \in 1..Len(tracks) :
          i < j => tracks[i].track_id < tracks[j].track_id
    /\ Called =>
          /\ Kept
          /\ \A i, j \in Old :
                (i < j /\ WasActive(i) /\ WasActive(j)
                 /\ appended(j) # <<>> /\ InReach(appended(j)[1], i)) =>
                    /\ appended(i) # <<>>
                    /\ ToTrack(appended(i)[1], i) <= ToTrack(appended(j)[1], i)

\* Two tracks take two detections, and the later track would have taken the
\* other one had it been visited first.
C23_Witness ==
    /\ Called
    /\ \E i, j \in Old :
          /\ i < j
          /\ appended(i) # <<>> /\ appended(j) # <<>>
          /\ InReach(appended(j)[1], i)
          /\ ToTrack(appended(i)[1], i) < ToTrack(appended(j)[1], i)
          /\ ToTrack(appended(i)[1], j) < ToTrack(appended(j)[1], j)

\* ------------------------------------------------------------------ C24
\* C24: an update leaves a track it found as it was, or appends one
\* detection to it and sets last_seen to that detection's timestamp, or
\* clears its is_active; it never changes alert_sent or track_id.  The alert
\* check leaves the map with the same tracks in the same order and changes
\* of a track nothing but alert_sent.
C24_FrameEffects ==
    /\ Called =>
          /\ Kept
          /\ \A i \in Old :
                LET a == pre.tracks[i]
                    b == [tracks[i] EXCEPT !.alert_sent = a.alert_sent]
                IN  /\ tracks[i].track_id = a.track_id
                    /\ pc = "alerts" => tracks[i].alert_sent = a.alert_sent
                    /\ \/ b = a
                       \/ /\ Len(b.detections) = Len(a.detections) + 1
                          /\ b = [a EXCEPT
                                    !.detections = Append(@, Last(b.detections)),
                                    !.last_seen = Last(b.detections).timestamp]
                       \/ /\ a.is_active
                          /\ b = [a EXCEPT !.is_active = FALSE]
    /\ Checked =>
          /\ Len(tracks) = Len(chk.tracks)
          /\ \A i \in 1..Len(chk.tracks) :
                tracks[i] = [chk.tracks[i] EXCEPT !.alert_sent = tracks[i].alert_sent]

\* In one frame the update appends a detection to a track alerted before,
\* and the alert check then marks another track.
C24_Witness ==
    /\ Checked
    /\ \E i \in Old :
          /\ pre.tracks[i].alert_sent
          /\ appended(i) # <<>>
          /\ tracks[i].alert_sent
    /\ \E j \in 1..Len(chk.tracks) :
          ~chk.tracks[j].alert_sent /\ tracks[j].alert_sent
    /\ last_alert_time # chk.last_alert_time


\* ------------------------------------------------------------------ C27
\* Every detection the frame's call of detect has built.
AllDetections ==
    Range(dets) \cup Range(detection_history) \cup Range(args.detections)
        \cup UNION {Range(tracks[i].detections) : i \in 1..Len(tracks)}

\* The boxes of the last result that can be read, are of the target class
\* and reach the threshold.
Passing ==
    {i \in 1..Len(raw.boxes) :
        /\ ~raw.boxes[i].malformed
        /\ raw.boxes[i].cls \in DOMAIN names
        /\ names[raw.boxes[i].cls] = "mouse"
        /\ raw.boxes[i].conf >= 70}

\* C27: every detection that detect returns, and so every detection in the
\* history, in the arguments of Tracker.update and in a track, has the target
\* class and a confidence at or above the threshold; detect returns no more
\* detections than the result has boxes of that class and confidence.
C27_Filtered ==
    /\ \A d \in AllDetections :
          d.class_name = "mouse" /\ d.confidence >= 70
    /\ Len(dets) <= Cardinality(Passing)

\* A frame has been processed whose result held a box that passes and a
\* box of another class or below the threshold.
C27_Witness ==
    /\ Checked
    /\ Len(dets) = 1
    /\ TotalDetections(tracks) = 1
    /\ \E i \in 1..Len(raw.boxes) :
          /\ ~raw.boxes[i].malformed
          /\ raw.boxes[i].cls # 0 \/ raw.boxes[i].conf < 70

\* ------------------------------------------------------------------ C28
\* C28: no detection that detect returns, that is passed to Tracker.update
\* or that is stored in a track has a width or a height of zero or less.
C28_Original ==
    \A d \in AllDetections : d.width > 0 /\ d.height > 0

\* ------------------------------------------------------------------ C29
\* The model call of the current frame raised.
Failed == raw.failed /\ pc # "detect"

\* The tracker has returned from the call for the current frame.
Tracked == pc \in {"alerts", "idle", "done"}

\* C29: in a frame whose model call fails, detect returns the empty list and
\* the frame runs to its end: the counter has been incremented for it, the
\* history gains nothing (it still holds exactly the detections of the
\* tracks), Tracker.update is called with no detections and the frame's
\* number, after which no track is new or longer and a track that was active
\* stays active exactly when its latest detection is at most max_age frames
\* old; and the frame after a failed one has started when the counter is one
\* ahead of the last completed frame.
C29_FailureSkipped ==
    /\ Failed =>
          /\ dets = <<>>
          /\ frame_count = chk.frame_id + (IF pc \in {"idle", "done"} THEN 0 ELSE 1)
          /\ HistoryOf(frame_count) = <<>>
          /\ Len(detection_history) = TotalDetections(tracks)
          /\ Tracked =>
                /\ Called
                /\ args = [detections |-> <<>>, frame_id |-> frame_count]
                /\ Len(tracks) = Len(pre.tracks)
                /\ \A i \in Old :
                      /\ tracks[i].detections = pre.tracks[i].detections
                      /\ tracks[i].is_active =
                             (WasActive(i) /\ Age(i) <= 1)
    /\ (raw.failed /\ pc = "detect") =>
          frame_count >= 2 /\ chk.frame_id = frame_count - 1

\* A frame whose model call failed has run to its end, and a track expired
\* in it.
C29_Witness ==
    /\ Failed
    /\ Checked
    /\ args = [detections |-> <<>>, frame_id |-> frame_count]
    /\ \E i \in Old : WasActive(i) /\ ~tracks[i].is_active

\* ------------------------------------------------------------------ C26
\* The frames whose alert check has completed.
Completed == chk.frame_id

\* C26: the frame counter is one above the number of completed frames while
\* a frame is being processed and equal to it between frames; the frame_id of
\* the latest Tracker.update call is the counter of the frame that made it,
\* above the frame_id of every detection the tracker held on entry and of the
\* call before it; the detections detect returned for the current frame, and
\* the part of the history recorded for it, carry the counter as frame_id,
\* and the frame_ids in the history never decrease.
C26_FrameIds ==
    /\ frame_count = Completed + (IF pc \in {"idle", "done"} THEN 0 ELSE 1)
    /\ Called =>
          /\ args.frame_id = (IF Tracked THEN frame_count ELSE frame_count - 1)
          /\ \A i \in Old : \A j \in 1..Len(pre.tracks[i].detections) :
                pre.tracks[i].detections[j].frame_id < args.frame_id
    /\ pc # "detect" => \A i \in 1..Len(dets) : dets[i].frame_id = frame_count
    /\ pc \in {"update", "alerts", "idle", "done"} => HistoryOf(frame_count) = dets
    /\ \A i \in 1..Len(detection_history) :
          /\ detection_history[i].frame_id \in 1..frame_count
          /\ i > 1 => detection_history[i - 1].frame_id <= detection_history[i].frame_id

\* The second frame's detections have been recorded and passed to the
\* tracker, which holds a detection of the first frame.
C26_Witness ==
    /\ pc = "alerts"
    /\ frame_count = 2
    /\ args.frame_id = 2
    /\ dets # <<>>
    /\ HistoryOf(1) # <<>>
    /\ pre.tracks # <<>>

\* ------------------------------------------------------------------ C21
\* The summary written at shutdown and what parsing its file gives.
Saved == Last(written)

Reloaded == loads(dumps(Saved))

EmptySessionFile ==
    dumps([session_info |->
              [timestamp |-> isoformat(Epoch), total_frames |-> 0,
               total_detections |-> 0, total_tracks |-> 0, active_tracks |-> 0],
           detections |-> <<>>,
           tracks |-> <<>>])

\* C22 for the sessions whose input is no frame at all: they have identical
\* input, so each of them writes the same text, that of the session shut
\* down at once.
C22_Original ==
    (pc = "done" /\ frame_count = 0) => dumps(Saved) = EmptySessionFile

\* ------------------------------------------------------------------ C37
\* The sum of the detection_count entries of the first n tracks of a summary.
RECURSIVE CountedIn(_, _)
CountedIn(summary, n) ==
    IF n = 0 THEN 0
    ELSE summary.tracks[n].detection_count + CountedIn(summary, n - 1)

\* The pairs <<track position, position in the track>> of the detections
\* the tracks of the map hold.
Held ==
    UNION {{<<i, j>> : j \in 1..Len(tracks[i].detections)} : i \in 1..Len(tracks)}

\* C37: between frames and at shutdown the tracks of the map hold as many
\* detections as the history, and in the summary written total_detections is
\* the sum of the detection_count values of its tracks.
C37_Conservation ==
    /\ pc \in {"idle", "done"} => Cardinality(Held) = Len(detection_history)
    /\ pc = "done" =>
          Saved.session_info.total_detections =
              CountedIn(Saved, Len(Saved.tracks))

\* A summary has been written of a session in which a frame held a detection
\* that joined a track and one that started a track.
C37_Witness ==
    /\ pc = "done"
    /\ Len(detection_history) = 3
    /\ Len(Saved.tracks) = 2
    /\ Len(args.detections) = 2
    /\ Len(pre.tracks) = 1
    /\ Len(tracks[1].detections) = 2

\* ------------------------------------------------------------------ C33
\* The last frame the tracker has been called for.
Processed == IF Tracked THEN frame_count ELSE frame_count - 1

\* Frames processed since the latest detection of the track at position i.
Streak(i) == Processed - Last(tracks[i].detections).frame_id

\* C33: in a session a track is active exactly while at most max_age frames
\* have been processed since the frame of its latest detection: after
\* max_age unmatched frames it is still active, after one more it is
\* inactive, and a match moves the latest detection and with it the count.
C33_Streak ==
    \A i \in 1..Len(tracks) : tracks[i].is_active <=> Streak(i) <= max_age

\* Three frames have been processed: a track seen in the first frame only
\* is inactive, and one seen in the first and the third is active.
C33_Witness ==
    /\ Checked
    /\ frame_count = 3
    /\ \E i, j \in 1..Len(tracks) :
          /\ Last(tracks[i].detections).frame_id = 1
          /\ ~tracks[i].is_active
          /\ Len(tracks[j].detections) = 2
          /\ tracks[j].detections[1].frame_id = 1
          /\ tracks[j].detections[2].frame_id = 3
          /\ tracks[j].is_active

\* ------------------------------------------------------------------ C35
\* C35: in update a track that was active on entry and is offered a
\* detection within distance_threshold takes one and stays active, however
\* old its latest detection is; a track that the call deactivates got no
\* detection in that call.
C35_AgeAfterMatch ==
    Called =>
        \A i \in Old :
            WasActive(i) =>
                /\ Near(i) # {} => appended(i) # <<>> /\ tracks[i].is_active
                /\ ~tracks[i].is_active => appended(i) = <<>>

\* A track whose latest detection was more than max_age frames old took a
\* detection and is active.
C35_Witness ==
    /\ Called
    /\ \E i \in Old :
          /\ WasActive(i)
          /\ Age(i) > max_age
          /\ appended(i) # <<>>
          /\ tracks[i].is_active

\* ------------------------------------------------------------------ C36
\* C36: when an earlier track of the map takes a detection d in update, d
\* is the nearest to it of the detections then unmatched and in reach,
\* whatever d's distance to a later track; the later track does not get d
\* and gets a detection exactly when one of those left after the earlier
\* tracks took theirs is in its reach.
C36_Greedy ==
    Called =>
        \A i, j \in Old :
            (i < j /\ WasActive(i) /\ WasActive(j) /\ appended(i) # <<>>) =>
                LET d == appended(i)[1]
                IN  /\ \A e \in Near(i) : ToTrack(d, i) <= ToTrack(e, i)
                    /\ CopiesIn(d, Offered(i)) = 1 => appended(j) # <<d>>
                    /\ appended(j) = <<>> <=> Near(j) = {}

\* The first track took a detection that is nearer to the second track,
\* which got none, while another detection of the input was in reach of
\* the first track only.
C36_Witness ==
    /\ Called
    /\ Len(pre.tracks) = 2 /\ WasActive(1) /\ WasActive(2)
    /\ appended(1) # <<>>
    /\ appended(2) = <<>>
    /\ ToTrack(appended(1)[1], 2) < ToTrack(appended(1)[1], 1)
    /\ \E e \in Range(args.detections) :
          /\ e # appended(1)[1]
          /\ InReach(e, 1)
          /\ ~InReach(e, 2)

\* ------------------------------------------------------------------ C38
\* A handler has been invoked for the track with this id.
Invoked(id) == \E a \in 1..Len(alerts) : alerts[a].track_id = id

\* C38: no handler has ever been invoked for a track that is inactive with
\* alert_sent false; an alert check is passed active tracks only, invokes
\* handlers for tracks it was passed only, and leaves every inactive track
\* of the map as it was (Tracker.update does not write alert_sent, C24).
C38_ExpiredSilent ==
    /\ \A i \in 1..Len(tracks) :
          (~tracks[i].is_active /\ ~tracks[i].alert_sent) =>
              ~Invoked(tracks[i].track_id)
    /\ Checked =>
          /\ \A k \in Passed : chk.passed[k].is_active
          /\ \A a \in 1..Len(Fresh) :
                \E k \in Passed : chk.passed[k].track_id = Fresh[a].track_id
          /\ \A i \in 1..Len(chk.tracks) :
                ~chk.tracks[i].is_active => tracks[i] = chk.tracks[i]

\* A track expired with alert_sent false, and the alert check of that frame
\* ran with the cooldown over: it invoked no handler and the track is still
\* unmarked.
C38_Witness ==
    /\ Checked
    /\ chk.current_time - chk.last_alert_time >= alert_cooldown
    /\ \E i \in 1..Len(tracks) :
          /\ ~tracks[i].is_active
          /\ ~tracks[i].alert_sent
          /\ ~Invoked(tracks[i].track_id)

\* ------------------------------------------------------------------ C32
\* The summary written holds the session as it is: the frames counted, the
\* detections recorded and the tracks of the map.
Reflects ==
    /\ Saved.session_info.total_frames = frame_count
    /\ Saved.session_info.total_detections = Len(detection_history)
    /\ Len(Saved.detections) = Len(detection_history)
    /\ Saved.session_info.total_tracks = Len(tracks)
    /\ Len(Saved.tracks) = Len(tracks)
    /\ \A i \in 1..Len(tracks) :
          Saved.tracks[i].detection_count = Len(tracks[i].detections)

C34_Original ==
    \A i \in 1..Len(tracks) : tracks[i].alert_sent => Invoked(tracks[i].track_id)

\* ------------------------------------------------------------------ C39
\* C39: in the legacy process_video, once 'q' has made the frame loop exit
\* and the results have been saved, they have been saved once, no further
\* frame is processed (the frame counter stays at the total_frames saved)
\* and the frame loop is not entered again.
C39_Original ==
    written # <<>> =>
        /\ Len(written) = 1
        /\ frame_count = Saved.session_info.total_frames
        /\ pc \notin {"read", "key", "quit"}

\* ---------------------------------------------------------------- C31
AllDone == \A t \in Threads : calls.of[t].pc = "done"

\* The Tracker after the two calls made one after the other, first first.
SerialAfter(first, second) ==
    LET a == UpdateResult(pre.tracks, pre.next_track_id,
                          calls.of[first].detections, calls.of[first].frame_id)
    IN  UpdateResult(a.tracks, a.next_track_id,
                     calls.of[second].detections, calls.of[second].frame_id)

\* The Tracker is as one of the two serial executions leaves it.
Serial ==
    /\ keys = [i \in 1..Len(tracks) |-> tracks[i].track_id]
    /\ \E first \in Threads :
          \E second \in Threads \ {first} :
              /\ tracks = SerialAfter(first, second).tracks
              /\ next_track_id = SerialAfter(first, second).next_track_id

\* Each call ran some of its statements while the other was inside update.
Interleaved == calls.switches > 1

\* The two calls built a Track with the same track_id.
Clash == calls.of[1].made \cap calls.of[2].made # {}

\* C31: two update calls on one Tracker that interleave at statement level
\* can leave it in a state no serial execution of the two produces: when
\* both calls have returned, the Tracker differs from both serial outcomes
\* whenever the calls gave the same track_id to their new tracks, and it
\* is a serial outcome whenever the calls did not interleave.
C31_Unserializable ==
    AllDone =>
        /\ Clash => ~Serial
        /\ ~Interleaved => Serial

\* Both calls have returned, each created a track under the same track_id,
\* and one of the two tracks has overwritten the other in the map.
C31_Witness ==
    /\ AllDone
    /\ Interleaved
    /\ Clash
    /\ \A t \in Threads : calls.of[t].made # {}
    /\ Len(tracks) = Len(pre.tracks) + 1
    /\ next_track_id = pre.next_track_id + 2
    /\ ~Serial

====
